---- MODULE Spec2Model ----
(***************************************************************************)
(* Smart order router: the order-placement engine of                      *)
(* src/smart_order_router.py (SmartOrderRouter.place_order) and the        *)
(* execute loop of the Streamlit front end (src/sor_app.py).               *)
(*                                                                         *)
(* The venue adapters (ccxt exchange objects) are external: every call on  *)
(* one (load_markets, create_market_order / create_limit_order,            *)
(* fetch_order) either raises or returns a response drawn from a small set.*)
(* place_order is modelled call by call: pc is the position of the         *)
(* coroutine, one action per venue call and the code that follows it up to *)
(* the next venue call, the per-venue except clause or the return.         *)
(*                                                                         *)
(* The quote operations (get_best_prices and get_arbitrage_opportunities   *)
(* of the router, the /prices and /depth handlers of src/api_server.py)    *)
(* are modelled one venue at a time: a turn of the loop asks the venue and *)
(* the venue raises, never returns, or returns a ticker or an order book.  *)
(* The per-venue symbol conversions are functions on strings of            *)
(* characters, one per call site.                                          *)
(***************************************************************************)
EXTENDS Integers, Sequences, FiniteSets, TLC

\* ------------------------------------------------------------------ bounds
\* The order quantity of every modelled request; fills range over 0..Qty.
Qty == 2

\* ------------------------------------------------------------ value domains
\* Python's None where the code reads an optional number (price, filled,
\* average, cost).
NoneV == -1

\* The limit price of a request that carries one, the average price and the
\* cost a venue may report.
LimitPx == 5
AvgPx == 6
VenueCost == 7

Venues == {"gateio", "mexc", "bitget", "kucoin"}

\* initialize() inserts the venues into self.exchanges in this order; the
\* KuCoin block is commented out, so "kucoin" is never inserted.
InitOrder == <<"gateio", "mexc", "bitget">>

\* A pinned venue (already lower-cased, line 122) or "none" for venue=None.
VenuePins == Venues \cup {"none"}

OrderTypes == {"market", "limit"}

\* order.get('status'): the ccxt unified statuses, the British spelling the
\* code tests for, and "none" for a response whose status is None.
Statuses == {"none", "open", "closed", "canceled", "cancelled", "expired", "rejected"}

\* order.get('id'): None, the literal 'unknown', or a venue order id.
OrderIds == {"none", "unknown", "oid"}

\* An order structure returned by create_*_order or fetch_order.
Orders == [id : OrderIds, status : Statuses, filled : {NoneV} \cup (0..Qty),
           average : {NoneV, AvgPx}, cost : {NoneV, VenueCost}]

NoOrder == [id |-> "none", status |-> "none", filled |-> NoneV,
            average |-> NoneV, cost |-> NoneV]

\* What a venue call can do: raise, return a falsy value (None), or return
\* an order structure.
CallOutcomes == {"raise", "empty", "order"}

AllFailedMsg == "All exchanges failed to place order"

NoResult == [success |-> FALSE, order_id |-> "none", total_filled |-> 0,
             average_price |-> NoneV, total_cost |-> 0, venue |-> "none",
             status |-> "none", error_message |-> ""]

\* ------------------------------------------------ values of the quotes
\* float('inf'), the start of best_ask and the default of a missing ask.
Inf == 1000000

\* A ticker price; bids and asks of the tickers lie around it.
Px == 100

\* ticker['bid'] and ticker['ask']: None, 0, or a price.
Bids == {NoneV, 0, Px, Px + 1}
Asks == {NoneV, 0, Px, Px + 2}

\* What exchange.fetch_ticker does: it raises, it never returns, or it
\* returns a ticker.
TickerOutcomes ==
    [out : {"ticker"}, bid : Bids, ask : Asks]
        \cup {[out |-> o, bid |-> NoneV, ask |-> NoneV] : o \in {"raise", "hang"}}

\* The venue has not been asked for its ticker.
NoTicker == [out |-> "unqueried", bid |-> NoneV, ask |-> NoneV]

\* Lines 558-561: best_bid, best_ask and their venues before the loop.
NoAcc == [best_bid |-> 0, best_ask |-> Inf,
          best_bid_venue |-> "none", best_ask_venue |-> "none"]

\* Line 614: get_best_prices returns None.
NoBest == [empty |-> TRUE, best_bid |-> 0, best_ask |-> 0, spread |-> 0,
           spread_bps |-> 0, best_bid_venue |-> "none", best_ask_venue |-> "none"]

\* The venue has not been asked for its order book.
NoBook == [out |-> "unqueried", asks |-> <<>>, bids |-> <<>>]

\* No symbol: the empty string.
NoSymbol == <<>>

\* create_order has not answered.
NoResponse == [code |-> 0, status |-> "none", order_id |-> "none",
               total_filled |-> 0, venue |-> "none", committed |-> FALSE]

\* No load_markets call has been made on the venue.
NoLoads == [writes |-> 0, stale |-> FALSE]

VARIABLES exchanges,     \* self.exchanges, in insertion order
          initialized,   \* initialize() has run
          marketsLoaded, \* venue -> exchange.markets is non-empty
          loads,         \* venue -> the load_markets calls made on it
          pc,            \* position of the place_order coroutine
          req,           \* the arguments of the running call
          toTry,         \* exchanges_to_try, in iteration order
          idx,           \* index in toTry of the venue being attempted
          order,         \* the local variable order
          calls,         \* venue -> the venue calls made by this call, in order
          raisedAt,      \* venues whose attempt raised, in order
          accepted,      \* venues whose create call returned an order id
          openOrders,    \* accepted orders last read as status open
          result         \* the ExecutionResult returned

\* The Execute button of src/sor_app.py.
VARIABLES xpc,           \* position of the execute loop
          side,          \* the side radio button
          dry,           \* the DRY-RUN toggle
          plan,          \* plan: one entry per quoted venue
          pos,           \* index in plan of the entry being processed
          results,       \* the rows of the execution report
          requests       \* the POST /orders requests issued, in order

\* The quote operations: get_best_prices and get_arbitrage_opportunities
\* of src/smart_order_router.py, /prices and /depth of src/api_server.py.
VARIABLES qpc,           \* position of the running quote operation
          qop,           \* the operation requested
          qidx,          \* index in self.exchanges of the venue being asked
          bps,           \* /depth: the bps query parameter
          min_spread,    \* arbitrage: min_spread, in basis points
          tickers,       \* venue -> what fetch_ticker did in the running loop
          books,         \* venue -> what fetch_order_book did
          acc,           \* best_bid, best_ask and their venues
          price_data,    \* what get_best_prices returned
          prices,        \* /prices: the entries; arbitrage: the quotes kept
          depth_data,    \* /depth: the snapshots
          opportunities, \* arbitrage: the opportunities emitted
          qfailed        \* an exception reached the outer except

\* The per-venue symbol conversion at one of its call sites.
VARIABLES symSite,       \* the call site
          symVenue,      \* the venue
          symIn,         \* the input symbol, a string of characters
          symOut         \* the venue symbol produced

\* POST /orders of src/api_server.py.
VARIABLES response       \* what create_order gave its caller, and the database

routerVars == <<exchanges, initialized, marketsLoaded, loads,
                pc, req, toTry, idx,
                order, calls, raisedAt, accepted, openOrders, result>>

appVars == <<xpc, side, dry, plan, pos, results, requests>>

quoteVars == <<qpc, qop, qidx, bps, min_spread, tickers, books, acc,
               price_data, prices, depth_data, opportunities, qfailed>>

symVars == <<symSite, symVenue, symIn, symOut>>

apiVars == <<response>>

vars == <<routerVars, appVars, quoteVars, symVars, apiVars>>

NoReq == [venue |-> "none", order_type |-> "market", price |-> NoneV]
NoCalls == [v \in Venues |-> <<>>]

Init ==
    /\ exchanges = <<>>
    /\ initialized = FALSE
    /\ marketsLoaded = [v \in Venues |-> FALSE]
    /\ loads = [v \in Venues |-> NoLoads]
    /\ pc = "idle"
    /\ req = NoReq
    /\ toTry = <<>>
    /\ idx = 0
    /\ order = NoOrder
    /\ calls = NoCalls
    /\ raisedAt = <<>>
    /\ accepted = {}
    /\ openOrders = {}
    /\ result = NoResult
    /\ xpc = "idle"
    /\ side = "buy"
    /\ dry = TRUE
    /\ plan = <<>>
    /\ pos = 0
    /\ results = <<>>
    /\ requests = <<>>
    /\ qpc = "idle"
    /\ qop = "none"
    /\ qidx = 0
    /\ bps = 0
    /\ min_spread = 0
    /\ tickers = [v \in Venues |-> NoTicker]
    /\ books = [v \in Venues |-> NoBook]
    /\ acc = NoAcc
    /\ price_data = NoBest
    /\ prices = <<>>
    /\ depth_data = <<>>
    /\ opportunities = <<>>
    /\ qfailed = FALSE
    /\ symSite = "none"
    /\ symVenue = "none"
    /\ symIn = NoSymbol
    /\ symOut = NoSymbol
    /\ response = NoResponse

\* ------------------------------------------------------------- initialize
\* initialize(): the three constructor blocks run in order inside one try;
\* an exception in a constructor leaves the venues inserted before it.
Initialize ==
    /\ ~initialized
    /\ \E n \in 0..Len(InitOrder) : exchanges' = SubSeq(InitOrder, 1, n)
    /\ initialized' = TRUE
    /\ UNCHANGED <<marketsLoaded, loads, pc, req, toTry, idx, order, calls, raisedAt,
                   accepted, openOrders, result>>
    /\ UNCHANGED <<appVars, quoteVars, symVars, apiVars>>

\* ------------------------------------------------------------ place_order
Range(seq) == {seq[i] : i \in 1..Len(seq)}

\* ExchangesToTry with the pin ignored.
ExchangesToTryIgnoringPin(venue) == exchanges

\* Lines 119-130: a pinned venue that is among self.exchanges is tried
\* alone; a pinned venue that is not falls back to every exchange.
ExchangesToTry(venue) ==
    IF venue # "none"
    THEN IF venue \in Range(exchanges) THEN <<venue>> ELSE exchanges
    ELSE exchanges

\* Lines 133-136: the loop visits exchanges_to_try in dict order and skips
\* 'kucoin'.
NotKucoin(v) == v # "kucoin"
Candidates(seq) == SelectSeq(seq, NotKucoin)

\* AllFailedResult carrying the message of a venue's own error.
AllFailedResultVenueError ==
    [success |-> FALSE, order_id |-> "failed", total_filled |-> 0,
     average_price |-> NoneV, total_cost |-> 0, venue |-> "none",
     status |-> "none", error_message |-> "venue error"]

\* AllFailedResult built without error_message (the constructor's default).
AllFailedResultNoMessage ==
    [success |-> FALSE, order_id |-> "failed", total_filled |-> 0,
     average_price |-> NoneV, total_cost |-> 0, venue |-> "none",
     status |-> "none", error_message |-> ""]

\* AllFailedResult carrying the fill of the last order structure seen.
AllFailedResultWithFill ==
    [success |-> FALSE, order_id |-> "failed", total_filled |-> Qty,
     average_price |-> AvgPx, total_cost |-> Qty * AvgPx, venue |-> "none",
     status |-> "none", error_message |-> AllFailedMsg]

\* Lines 456-466: the result returned after the loop.
AllFailedResult ==
    [success |-> FALSE, order_id |-> "failed", total_filled |-> 0,
     average_price |-> NoneV, total_cost |-> 0, venue |-> "none",
     status |-> "none", error_message |-> AllFailedMsg]

\* `a.get('filled') or a.get('filledSize') or a.get('filled_amount')`
\* (lines 353, 372): a filled of 0 is falsy, so the chain yields None.
FilledOf(o) == IF o.filled = NoneV \/ o.filled = 0 THEN NoneV ELSE o.filled

\* The same chain ending in `or 0` (lines 259, 268, 276).
GateFilledQty(o) == IF o.filled = NoneV THEN 0 ELSE o.filled

\* Lines 378-441: the success result built from the order structure, the
\* local filled and the local order_status.
MakeResult(v, o, filled, order_status) ==
    LET total_filled ==
            IF filled = NoneV
            THEN IF req.order_type = "limit" THEN 0
                 ELSE IF order_status \in {"closed", "filled", "done"}
                      THEN Qty ELSE 0
            ELSE filled
        avg_price ==
            IF o.average = NoneV
            THEN IF req.price # NoneV THEN req.price ELSE 0
            ELSE o.average
        cost ==
            IF o.cost = NoneV
            THEN IF avg_price > 0 THEN total_filled * avg_price ELSE 0
            ELSE o.cost
    IN  [success |-> TRUE, order_id |-> o.id, total_filled |-> total_filled,
         average_price |-> IF avg_price > 0 THEN avg_price ELSE NoneV,
         total_cost |-> cost, venue |-> v, status |-> o.status,
         error_message |-> ""]

\* The venue being attempted.
Cur == toTry[idx]

\* PerVenueExcept leaving the loop (break) instead of continuing.
PerVenueExceptBreak(v) ==
    /\ raisedAt' = Append(raisedAt, v)
    /\ idx' = Len(toTry) + 1
    /\ pc' = "loop"
    /\ order' = NoOrder
    /\ result' = result

\* PerVenueExcept trying the venue that raised once more.
PerVenueExceptRetry(v) ==
    /\ raisedAt' = Append(raisedAt, v)
    /\ idx' = idx
    /\ pc' = "loop"
    /\ order' = NoOrder
    /\ result' = result

\* Lines 443-454: the per-venue except clause logs and continues with the
\* next venue. (order keeps its value in the code; it is assigned again
\* before it is next read, so the model clears it.)
PerVenueExcept(v) ==
    /\ raisedAt' = Append(raisedAt, v)
    /\ idx' = idx + 1
    /\ pc' = "loop"
    /\ order' = NoOrder
    /\ result' = result

Goto(p, o) ==
    /\ pc' = p
    /\ order' = o
    /\ UNCHANGED <<raisedAt, idx, result>>

\* Line 428: return ExecutionResult(success=True, ...).
ReturnResult(r) ==
    /\ pc' = "done"
    /\ result' = r
    /\ order' = NoOrder
    /\ UNCHANGED <<raisedAt, idx>>

MakeCall(v, kind) == calls' = [calls EXCEPT ![v] = Append(@, kind)]

\* What the venue has told the caller about an order it accepted.
SeenCreate(v, o) ==
    /\ accepted' = IF o.id = "oid" THEN accepted \cup {v} ELSE accepted
    /\ openOrders' = IF o.id = "oid" /\ o.status = "open"
                     THEN openOrders \cup {v} ELSE openOrders

SeenFetch(v, o) ==
    /\ accepted' = accepted
    /\ openOrders' = IF v \notin accepted \/ o.status = "none" THEN openOrders
                     ELSE IF o.status = "open" THEN openOrders \cup {v}
                     ELSE openOrders \ {v}

\* Lines 104-133: a call starts; exchanges_to_try is fixed.
PlaceOrder ==
    /\ initialized
    /\ pc = "idle"
    /\ \E venue \in VenuePins, ot \in OrderTypes, price \in {NoneV, LimitPx} :
         /\ req' = [venue |-> venue, order_type |-> ot, price |-> price]
         /\ toTry' = Candidates(ExchangesToTry(venue))
    /\ idx' = 1
    /\ pc' = "loop"
    /\ order' = NoOrder
    /\ calls' = NoCalls
    /\ raisedAt' = <<>>
    /\ accepted' = {}
    /\ openOrders' = {}
    /\ result' = NoResult
    /\ UNCHANGED <<exchanges, initialized, marketsLoaded, loads>>
    /\ UNCHANGED <<appVars, quoteVars, symVars, apiVars>>

\* Line 133: the loop takes the next venue. Gate.io starts with its market
\* load (line 182), the others with the create call.
EnterVenue ==
    /\ pc = "loop"
    /\ idx <= Len(toTry)
    /\ pc' = IF Cur = "gateio" THEN "g_load" ELSE "create"
    /\ UNCHANGED <<exchanges, initialized, marketsLoaded, loads, req, toTry, idx,
                   order, calls, raisedAt, accepted, openOrders, result>>
    /\ UNCHANGED <<appVars, quoteVars, symVars, apiVars>>

\* Lines 456-466: the loop ended without a return.
AllFailed ==
    /\ pc = "loop"
    /\ idx > Len(toTry)
    /\ pc' = "done"
    /\ result' = AllFailedResult
    /\ UNCHANGED <<exchanges, initialized, marketsLoaded, loads, req, toTry, idx,
                   order, calls, raisedAt, accepted, openOrders>>
    /\ UNCHANGED <<appVars, quoteVars, symVars, apiVars>>

Frame == UNCHANGED <<exchanges, initialized, req, toTry, appVars, quoteVars,
                    symVars, apiVars>>

\* load_markets called whether or not the catalogue is populated.
LoadOutcomesAlways(v) == {"ok", "raise"}

\* Lines 185-186, 490-491, 568-569 (and 514-515, 545-546, 649-650, 680-681
\* of api_server.py): load_markets is called when exchange.markets is
\* empty; it fills the catalogue or raises, and a raise is logged and
\* passed over.
LoadOutcomes(v) == IF marketsLoaded[v] THEN {"skip"} ELSE {"ok", "raise"}

\* exchange.markets after the call.
AfterLoad(v, lm) == [marketsLoaded EXCEPT ![v] = @ \/ lm = "ok"]

\* The record of the load_markets calls on a venue: how many returned, and
\* whether one was made on a populated catalogue.
LoadCall(v, lm) ==
    [loads EXCEPT ![v] = [writes |-> @.writes + (IF lm = "ok" THEN 1 ELSE 0),
                          stale |-> @.stale \/ (lm # "skip" /\ marketsLoaded[v])]]

\* Lines 183-189 (Gate.io): load_markets is called only when the catalogue
\* is empty; a failure is logged and the attempt goes on.
GateLoadMarkets ==
    /\ pc = "g_load"
    /\ \E lm \in LoadOutcomes("gateio") :
         /\ IF lm = "skip" THEN UNCHANGED calls
            ELSE MakeCall("gateio", "load_markets")
         /\ marketsLoaded' = AfterLoad("gateio", lm)
         /\ loads' = LoadCall("gateio", lm)
    /\ Goto("g_validate", order)
    /\ UNCHANGED <<accepted, openOrders>>
    /\ Frame

\* Lines 191-205 (Gate.io): with a catalogue, the symbol must be in it,
\* exactly or up to letter case; otherwise ValueError.
GateValidate ==
    /\ pc = "g_validate"
    /\ IF marketsLoaded["gateio"]
       THEN \E found \in {"exact", "case", "missing"} :
              IF found = "missing"
              THEN PerVenueExcept("gateio")
              ELSE Goto("create", order)
       ELSE Goto("create", order)
    /\ UNCHANGED <<calls, marketsLoaded, loads, accepted, openOrders>>
    /\ Frame

\* Lines 237-254 and 258, 321-333 (Gate.io): the checks on the create
\* response; "raise" or the next position.
GateAfterCreate(o) ==
    IF o.id \in {"none", "unknown"} THEN "raise"
    ELSE IF o.status = "none" THEN "raise"
    ELSE IF o.status \in {"closed", "cancelled", "expired", "rejected"} THEN "raise"
    ELSE IF req.order_type = "market" THEN "g_fetch1"
    ELSE "build"

\* Lines 207-254 (Gate.io): the create call and the checks on its response.
\* float(price) raises for a limit order without a price before the call.
CreateGateio ==
    /\ pc = "create"
    /\ Cur = "gateio"
    /\ IF req.order_type = "limit" /\ req.price = NoneV
       THEN /\ PerVenueExcept("gateio")
            /\ UNCHANGED <<calls, accepted, openOrders>>
       ELSE /\ MakeCall("gateio", "create_order")
            /\ \E out \in CallOutcomes :
                 IF out = "order"
                 THEN \E o \in Orders :
                        /\ SeenCreate("gateio", o)
                        /\ IF GateAfterCreate(o) = "raise"
                           THEN PerVenueExcept("gateio")
                           ELSE Goto(GateAfterCreate(o), o)
                 ELSE /\ PerVenueExcept("gateio")
                      /\ UNCHANGED <<accepted, openOrders>>
    /\ UNCHANGED <<marketsLoaded, loads>>
    /\ Frame

\* Lines 167-181 (Bitget) and 353-354: the create call; the response is
\* read with order.get, which raises on None, and a status of None raises
\* at .lower().
CreateBitget ==
    /\ pc = "create"
    /\ Cur = "bitget"
    /\ IF req.order_type = "limit" /\ req.price = NoneV
       THEN /\ PerVenueExcept("bitget")
            /\ UNCHANGED <<calls, accepted, openOrders>>
       ELSE /\ MakeCall("bitget", "create_order")
            /\ \E out \in CallOutcomes :
                 IF out = "order"
                 THEN \E o \in Orders :
                        /\ SeenCreate("bitget", o)
                        /\ Goto("build", o)
                 ELSE /\ PerVenueExcept("bitget")
                      /\ UNCHANGED <<accepted, openOrders>>
    /\ UNCHANGED <<marketsLoaded, loads>>
    /\ Frame

\* Lines 334-350 (mexc and others) and 353-354.
CreateOther ==
    /\ pc = "create"
    /\ Cur \notin {"gateio", "bitget"}
    /\ IF req.order_type = "limit" /\ req.price = NoneV
       THEN /\ PerVenueExcept(Cur)
            /\ UNCHANGED <<calls, accepted, openOrders>>
       ELSE /\ MakeCall(Cur, "create_order")
            /\ \E out \in CallOutcomes :
                 IF out = "order"
                 THEN \E o \in Orders :
                        /\ SeenCreate(Cur, o)
                        /\ Goto("build", o)
                 ELSE /\ PerVenueExcept(Cur)
                      /\ UNCHANGED <<accepted, openOrders>>
    /\ UNCHANGED <<marketsLoaded, loads>>
    /\ Frame

\* Lines 314-318: a failed status fetch is tolerated unless the order in
\* hand shows no fill and a status other than open / pending / new.
GateFetchFailed(o) ==
    IF GateFilledQty(o) = 0 /\ o.status \notin {"open", "pending", "new"}
    THEN PerVenueExcept("gateio")
    ELSE Goto("build", o)

\* Lines 262-295 (Gate.io market order): the status fetch after 0.3 s.
GateFetch1 ==
    /\ pc = "g_fetch1"
    /\ MakeCall("gateio", "fetch_order")
    /\ \E out \in CallOutcomes :
         CASE out = "raise" ->
                /\ GateFetchFailed(order)
                /\ UNCHANGED <<accepted, openOrders>>
           [] out = "empty" ->
                /\ Goto("build", order)
                /\ UNCHANGED <<accepted, openOrders>>
           [] out = "order" ->
                \E u \in Orders :
                  /\ SeenFetch("gateio", u)
                  /\ IF u.status = "none"
                     THEN GateFetchFailed(order)
                     ELSE IF u.status \in {"rejected", "cancelled", "expired"}
                     THEN PerVenueExcept("gateio")
                     ELSE IF GateFilledQty(u) = 0
                     THEN IF u.status \in {"open", "pending", "new"}
                          THEN Goto("g_fetch2", u)
                          ELSE PerVenueExcept("gateio")
                     ELSE Goto("build", u)
    /\ UNCHANGED <<marketsLoaded, loads>>
    /\ Frame

\* Lines 295-311 (Gate.io market order, still open with no fill): the final
\* check after 0.5 s more. Whatever it returns, a ValueError follows (lines
\* 302, 305, 311); only a raising fetch is tolerated (line 314, the order in
\* hand being open).
GateFetch2 ==
    /\ pc = "g_fetch2"
    /\ MakeCall("gateio", "fetch_order")
    /\ \E out \in CallOutcomes :
         CASE out = "raise" ->
                /\ GateFetchFailed(order)
                /\ UNCHANGED <<accepted, openOrders>>
           [] out = "empty" ->
                /\ PerVenueExcept("gateio")
                /\ UNCHANGED <<accepted, openOrders>>
           [] out = "order" ->
                \E f \in Orders :
                  /\ SeenFetch("gateio", f)
                  /\ PerVenueExcept("gateio")
    /\ UNCHANGED <<marketsLoaded, loads>>
    /\ Frame

\* Lines 352-360 and 378-441: the fill and status are read from the order in
\* hand; a Gate.io market order with an id and no fill goes to one more
\* fetch, everything else returns its result.
BuildResult ==
    /\ pc = "build"
    /\ IF order.status = "none"
       THEN PerVenueExcept(Cur)
       ELSE IF /\ Cur = "gateio"
               /\ req.order_type = "market"
               /\ order.id # "none"
               /\ FilledOf(order) = NoneV
       THEN Goto("g_fetch3", order)
       ELSE ReturnResult(MakeResult(Cur, order, FilledOf(order), order.status))
    /\ UNCHANGED <<calls, marketsLoaded, loads, accepted, openOrders>>
    /\ Frame

\* Lines 361-376 (Gate.io market order): the fetch after 0.5 s; on failure
\* the data in hand is used. order and filled are replaced before the
\* status is read, so a fetched status of None keeps the old order_status.
GateFetch3 ==
    /\ pc = "g_fetch3"
    /\ MakeCall("gateio", "fetch_order")
    /\ \E out \in CallOutcomes :
         IF out = "order"
         THEN \E u \in Orders :
                /\ SeenFetch("gateio", u)
                /\ ReturnResult(MakeResult("gateio", u, FilledOf(u),
                        IF u.status = "none" THEN order.status ELSE u.status))
         ELSE /\ ReturnResult(MakeResult("gateio", order, FilledOf(order), order.status))
              /\ UNCHANGED <<accepted, openOrders>>
    /\ UNCHANGED <<marketsLoaded, loads>>
    /\ Frame

\* The caller has the result; the router is ready for the next call. Only
\* self.exchanges and the venues' catalogues outlive a call.
Finish ==
    /\ pc = "done"
    /\ pc' = "idle"
    /\ req' = NoReq
    /\ toTry' = <<>>
    /\ idx' = 0
    /\ calls' = NoCalls
    /\ raisedAt' = <<>>
    /\ accepted' = {}
    /\ openOrders' = {}
    /\ result' = NoResult
    /\ UNCHANGED <<exchanges, initialized, marketsLoaded, loads, order>>
    /\ UNCHANGED <<appVars, quoteVars, symVars, apiVars>>

Next ==
    \/ Initialize
    \/ PlaceOrder
    \/ EnterVenue
    \/ AllFailed
    \/ GateLoadMarkets
    \/ GateValidate
    \/ CreateGateio
    \/ CreateBitget
    \/ CreateOther
    \/ GateFetch1
    \/ GateFetch2
    \/ BuildResult
    \/ GateFetch3
    \/ Finish

Spec == Init /\ [][Next]_vars

\* ------------------------------------------------- claims on place_order
CreateCalled(v) == "create_order" \in Range(calls[v])

\* C1: with no venue pinned, the configured venues are tried in their
\* configured order; the call returns the result of the first venue whose
\* attempt does not raise, every venue before it having raised and no venue
\* after it having received any call; with no such venue every one raised.
C1_FirstSuccessWins ==
    (pc # "idle" /\ req.venue = "none") =>
        /\ toTry = exchanges
        /\ \A j \in 1..Len(toTry) : j > idx => calls[toTry[j]] = <<>>
        /\ pc = "done" =>
             IF result.success
             THEN /\ idx \in 1..Len(toTry)
                  /\ result.venue = toTry[idx]
                  /\ raisedAt = SubSeq(toTry, 1, idx - 1)
             ELSE raisedAt = toTry

C1_Witness ==
    /\ pc = "done"
    /\ req.venue = "none"
    /\ toTry = <<"gateio", "mexc", "bitget">>
    /\ raisedAt = <<"gateio">>
    /\ result.success
    /\ result.venue = "mexc"
    /\ calls["bitget"] = <<>>

\* C2: once a venue has accepted an order in a call, no order is submitted
\* to a later venue in that call.
C2_NoSubmitAfterAccept ==
    \A i, j \in 1..Len(toTry) :
        (i < j /\ toTry[i] \in accepted) => ~CreateCalled(toTry[j])

C4_AllVenuesFailed ==
    pc = "done" =>
        /\ raisedAt = toTry =>
             (~result.success /\ result.error_message = AllFailedMsg)
        /\ ~result.success => result.error_message = AllFailedMsg

C4_Witness ==
    /\ pc = "done"
    /\ toTry = <<"gateio", "mexc", "bitget">>
    /\ raisedAt = toTry
    /\ CreateCalled("bitget")
    /\ ~result.success

\* C5: a call always ends in a result: wherever a venue fails, the call can
\* go on, and a result that is not a success carries an error message.
C5_AlwaysStructuredResult ==
    /\ pc \notin {"idle", "done"} => ENABLED Next
    /\ pc = "done" =>
         /\ result # NoResult
         /\ result.success \/ result.error_message # ""

C5_Witness ==
    /\ pc = "done"
    /\ ~result.success
    /\ raisedAt = <<"gateio", "mexc", "bitget">>
    /\ calls["gateio"] = <<"load_markets", "create_order", "fetch_order">>
    /\ "mexc" \in accepted
    /\ calls["bitget"] = <<"create_order">>
    /\ "bitget" \notin accepted

\* C6: a success result never reports an order whose status is a terminal
\* non-fill with nothing filled.
C6_NoSuccessOnTerminalNonFill ==
    (pc = "done" /\ result.success) =>
        ~(/\ result.status \in {"rejected", "expired", "canceled", "cancelled"}
          /\ result.total_filled = 0)

\* C8: when the call has returned or moved on to another venue, every
\* accepted order last read as open has had a cancel issued for it.
C8_OpenOrderCancelled ==
    pc \in {"loop", "done"} =>
        \A v \in openOrders : "cancel_order" \in Range(calls[v])

\* ------------------------------------------------ sor_app.py: Execute
\* Amounts are counted in units of 0.0005 and prices in the tick of the
\* venue; a guard of Guard is 10^7 ticks (100000.00 at a tick of 0.01), so
\* that one tick is a thousandth of a basis point. Slippage is counted in
\* hundredths of a basis point, the resolution of the report.

\* Rows of the plan in one run of the execute loop.
MaxPlan == 2

\* clamp_amount's min_amount=0.001 and max_amount=1000000, in amount units.
MinAmount == 2
MaxAmount == 2000000000

\* THROUGH_BPS, the cross of the marketable limit.
ThroughBps == 3

\* A positive top-of-book price.
Guard == 10000000

\* Half a percent of Guard (50 basis points), and one tick.
HalfPercent == Guard \div 200
Tick == 1

\* A key that a JSON response does not carry (dict.get then gives its
\* default).
AbsentV == -2

Sides == {"buy", "sell"}

\* st.number_input(min_value=0.0): nothing, below the minimum, the minimum,
\* above the maximum.
Desireds == {0, 1, MinAmount, MaxAmount + 1}

\* r["px"]: fetch_entry_tob_with_qty gives 0.0 when it has no price.
Guards == {0, Guard}

PlanEntries == [k : {"gateio", "mexc", "bitget"}, guard : Guards, desired : Desireds]

\* The rows are one per venue of the /prices answer, in its order.
Plans == UNION {{p \in [1..n -> PlanEntries] :
                    \A i \in 1..n : p[i].k = InitOrder[i]} : n \in 0..MaxPlan}

\* The answer of POST /orders as call_api returns it: None (no 200, or the
\* request failed), or the JSON object, of which the loop reads
\* average_price (a number or null) and total_filled; an object with
\* neither key gets the defaults.
ApiAnswers ==
    [average_price : {NoneV, 0, Guard - HalfPercent, Guard - Tick,
                      Guard + Tick, Guard + HalfPercent},
     total_filled : {0, MinAmount}]
        \cup {[average_price |-> AbsentV, total_filled |-> AbsentV]}

\* call_api returned None.
NoAnswer == [average_price |-> NoneV, total_filled |-> NoneV]

\* Lines 53-59, 49-51: amount_to_precision(clamp_amount(amount)).
ClampAmount(amount) ==
    IF amount < MinAmount THEN 0
    ELSE IF amount > MaxAmount THEN MaxAmount
    ELSE amount

\* Line 130: the limit price crosses the guard by cross_bps.
CrossPrice(sd, guard_px) ==
    IF sd = "buy"
    THEN guard_px + (guard_px * ThroughBps) \div 10000
    ELSE guard_px - (guard_px * ThroughBps) \div 10000

\* Lines 134-140: the body of the only request place_marketable_limit
\* issues: a limit order, with neither a venue nor a time in force.
OrderData(sd, qty, px) ==
    [side |-> sd, order_type |-> "limit", quantity |-> qty, price |-> px,
     time_in_force |-> "none"]

\* place_marketable_limit without its guard check.
PlaceMarketableLimitUnguarded(sd, qty, guard_px, api) ==
    LET px == CrossPrice(sd, guard_px)
    IN  IF api = NoAnswer
        THEN [raised |-> TRUE, error |-> "Failed to place order",
              sent |-> <<OrderData(sd, qty, px)>>, avg |-> NoneV, filled |-> NoneV]
        ELSE [raised |-> FALSE, error |-> "",
              sent |-> <<OrderData(sd, qty, px)>>,
              avg |-> IF api.average_price = AbsentV THEN px ELSE api.average_price,
              filled |-> IF api.total_filled = AbsentV THEN qty ELSE api.total_filled]

\* Lines 125-149: place_marketable_limit; api is what call_api returns.
\* The result says whether it raised, the requests it sent, and the
\* (avg, filled) it returned.
PlaceMarketableLimit(sd, qty, guard_px, api) ==
    IF guard_px <= 0
    THEN [raised |-> TRUE, error |-> "No guard TOB", sent |-> <<>>,
          avg |-> NoneV, filled |-> NoneV]
    ELSE PlaceMarketableLimitUnguarded(sd, qty, guard_px, api)

\* The slippage with the side left out: avg - guard on both sides.
SlipUnsigned(sd, avg, guard) ==
    IF avg > 0 /\ guard > 0 THEN avg - guard ELSE 0

\* Line 320: slip = (avg-guard)/guard*10000 for a buy and
\* (guard-avg)/guard*10000 for a sell when avg > 0 and guard > 0, else 0.0
\* (avg > 0 raises on None). The value here is the numerator d, in ticks:
\* slip = d/guard*10000 basis points.
Slip(sd, avg, guard) ==
    IF avg > 0 /\ guard > 0 /\ sd = "buy" THEN avg - guard
    ELSE IF avg > 0 /\ guard > 0 THEN guard - avg
    ELSE 0

\* Long division: from the quotient q and remainder r of n by g, the
\* quotient and remainder of n * 10^k by g.
RECURSIVE ScaledDiv(_, _, _, _)
ScaledDiv(q, r, g, k) ==
    IF k = 0 THEN <<q, r>>
    ELSE ScaledDiv(q * 10 + (r * 10) \div g, (r * 10) % g, g, k - 1)

\* Line 328: round(slip, 2) of slip = d/guard*10000, in hundredths of a
\* basis point: d * 10^6 / guard rounded to the nearest integer, a half
\* going to the even one.
RoundSlip(d, guard) ==
    LET a  == IF d < 0 THEN -d ELSE d
        qr == ScaledDiv(a \div guard, a % guard, guard, 6)
        up == 2 * qr[2] > guard \/ (2 * qr[2] = guard /\ qr[1] % 2 = 1)
        m  == IF up THEN qr[1] + 1 ELSE qr[1]
    IN  IF d < 0 THEN -m ELSE m

NoRow == [entry |-> 0, venue |-> "none", error |-> "", note |-> "",
          placed |-> 0, guard |-> 0, avg |-> 0, filled |-> 0, slip |-> 0]

ErrorRow(i, e) == [NoRow EXCEPT !.entry = i, !.venue = plan[i].k, !.error = e]

AppFrame == UNCHANGED <<routerVars, quoteVars, symVars, apiVars, side, dry, plan>>

\* Line 286: Execute is pressed; the plan holds one entry per row.
ExecuteStart ==
    /\ xpc = "idle"
    /\ \E p \in Plans, sd \in Sides, d \in BOOLEAN :
         /\ plan' = p
         /\ side' = sd
         /\ dry' = d
    /\ xpc' = "running"
    /\ pos' = 1
    /\ results' = <<>>
    /\ requests' = <<>>
    /\ UNCHANGED <<routerVars, quoteVars, symVars, apiVars>>

\* Lines 289-290: an entry without a positive quantity is passed over.
ExecSkip ==
    /\ xpc = "running" /\ pos <= Len(plan)
    /\ plan[pos].desired <= 0
    /\ pos' = pos + 1
    /\ UNCHANGED <<xpc, results, requests>>
    /\ AppFrame

\* Lines 294-298.
ExecBelowMin ==
    /\ xpc = "running" /\ pos <= Len(plan)
    /\ plan[pos].desired > 0
    /\ ClampAmount(plan[pos].desired) <= 0
    /\ results' = Append(results, ErrorRow(pos, "amount_below_min"))
    /\ pos' = pos + 1
    /\ UNCHANGED <<xpc, requests>>
    /\ AppFrame

\* Lines 300-303.
ExecNoGuard ==
    /\ xpc = "running" /\ pos <= Len(plan)
    /\ plan[pos].desired > 0
    /\ ClampAmount(plan[pos].desired) > 0
    /\ plan[pos].guard <= 0
    /\ results' = Append(results, ErrorRow(pos, "no_guard_price"))
    /\ pos' = pos + 1
    /\ UNCHANGED <<xpc, requests>>
    /\ AppFrame

\* A dry run that reports its DRY-RUN row and sends the order all the same.
ExecDryRunSending ==
    /\ xpc = "running" /\ pos <= Len(plan)
    /\ plan[pos].desired > 0
    /\ ClampAmount(plan[pos].desired) > 0
    /\ plan[pos].guard > 0
    /\ dry
    /\ results' = Append(results,
          [NoRow EXCEPT !.entry = pos, !.venue = plan[pos].k, !.note = "DRY-RUN",
                        !.placed = ClampAmount(plan[pos].desired),
                        !.guard = plan[pos].guard])
    /\ requests' = Append(requests,
          [entry |-> pos,
           body |-> OrderData(side, ClampAmount(plan[pos].desired),
                              CrossPrice(side, plan[pos].guard))])
    /\ pos' = pos + 1
    /\ UNCHANGED xpc
    /\ AppFrame

\* Lines 305-316.
ExecDryRun ==
    /\ xpc = "running" /\ pos <= Len(plan)
    /\ plan[pos].desired > 0
    /\ ClampAmount(plan[pos].desired) > 0
    /\ plan[pos].guard > 0
    /\ dry
    /\ results' = Append(results,
          [NoRow EXCEPT !.entry = pos, !.venue = plan[pos].k, !.note = "DRY-RUN",
                        !.placed = ClampAmount(plan[pos].desired),
                        !.guard = plan[pos].guard])
    /\ pos' = pos + 1
    /\ UNCHANGED <<xpc, requests>>
    /\ AppFrame

\* Lines 318-331: the order is placed; whatever is raised becomes an error
\* row.
ExecLive ==
    /\ xpc = "running" /\ pos <= Len(plan)
    /\ plan[pos].desired > 0
    /\ ClampAmount(plan[pos].desired) > 0
    /\ plan[pos].guard > 0
    /\ ~dry
    /\ \E api \in ApiAnswers \cup {NoAnswer} :
         LET qty == ClampAmount(plan[pos].desired)
             guard == plan[pos].guard
             r == PlaceMarketableLimit(side, qty, guard, api)
         IN  /\ requests' = requests \o
                    [n \in 1..Len(r.sent) |-> [entry |-> pos, body |-> r.sent[n]]]
             /\ results' = Append(results,
                    IF r.raised THEN ErrorRow(pos, r.error)
                    ELSE IF r.avg = NoneV THEN ErrorRow(pos, "TypeError")
                    ELSE [NoRow EXCEPT !.entry = pos, !.venue = plan[pos].k,
                                       !.placed = qty, !.guard = guard,
                                       !.avg = r.avg, !.filled = r.filled,
                                       !.slip = RoundSlip(Slip(side, r.avg, guard),
                                                          guard)])
    /\ pos' = pos + 1
    /\ UNCHANGED xpc
    /\ AppFrame

\* Lines 333-345: the loop is over; the report is shown.
ExecuteEnd ==
    /\ xpc = "running" /\ pos > Len(plan)
    /\ xpc' = "done"
    /\ UNCHANGED <<pos, results, requests>>
    /\ AppFrame

\* The script runs again without Execute pressed: plan, results and the
\* report are locals of the run before and are gone.
Rerun ==
    /\ xpc = "done"
    /\ xpc' = "idle"
    /\ plan' = <<>>
    /\ pos' = 0
    /\ results' = <<>>
    /\ requests' = <<>>
    /\ UNCHANGED <<routerVars, quoteVars, symVars, apiVars, side, dry>>

NextApp ==
    \/ Rerun
    \/ ExecuteStart
    \/ ExecSkip
    \/ ExecBelowMin
    \/ ExecNoGuard
    \/ ExecDryRun
    \/ ExecLive
    \/ ExecuteEnd

SpecApp == Init /\ [][NextApp]_vars

\* ---------------------------------------------- claims on the execute loop
RowsOf(i) == {n \in 1..Len(results) : results[n].entry = i}
RequestsOf(i) == LET Mine(q) == q.entry = i IN SelectSeq(requests, Mine)

\* The time-in-force policies in the order the chain tries them.
TifChain == <<"FOK", "IOC", "none">>

\* C7: the requests issued for one order follow the chain Fill-Or-Kill,
\* Immediate-Or-Cancel, plain limit: the n-th request of an entry carries
\* the n-th policy, so a plain limit is never the first request.
C7_FokIocLimitChain ==
    \A i \in 1..Len(plan) :
        /\ Len(RequestsOf(i)) <= Len(TifChain)
        /\ \A n \in 1..Len(RequestsOf(i)) :
             n <= Len(TifChain) => RequestsOf(i)[n].body.time_in_force = TifChain[n]

\* C10 as stated: every processed entry whose guard is <= 0 has a
\* no_guard_price row and no request.
C10_NoGuardAlwaysRecorded ==
    \A i \in 1..Len(plan) :
        (i < pos /\ plan[i].guard <= 0) =>
            /\ RequestsOf(i) = <<>>
            /\ \E n \in RowsOf(i) : results[n].error = "no_guard_price"

\* C10 amended: no request is ever issued for a guard <= 0, by the loop or
\* by place_marketable_limit itself, which raises before its request; an
\* entry with a guard <= 0 gets exactly one row, no_guard_price, when its
\* quantity is positive and not below the minimum, amount_below_min when it
\* is below the minimum, and no row when it is not positive; the loop goes
\* on to the end of the plan.
C10_NoOrderWithoutGuard ==
    /\ \A n \in 1..Len(requests) : plan[requests[n].entry].guard > 0
    /\ \A sd \in Sides, q \in Desireds, g \in {-Guard, 0}, api \in ApiAnswers :
         /\ PlaceMarketableLimit(sd, q, g, api).raised
         /\ PlaceMarketableLimit(sd, q, g, api).sent = <<>>
    /\ \A i \in 1..Len(plan) :
         (i < pos /\ plan[i].guard <= 0) =>
             /\ RequestsOf(i) = <<>>
             /\ IF plan[i].desired <= 0 THEN RowsOf(i) = {}
                ELSE /\ Cardinality(RowsOf(i)) = 1
                     /\ \A n \in RowsOf(i) :
                          results[n].error =
                              IF ClampAmount(plan[i].desired) <= 0
                              THEN "amount_below_min" ELSE "no_guard_price"
    /\ xpc = "done" => pos = Len(plan) + 1

C10_Witness ==
    /\ xpc = "done"
    /\ ~dry
    /\ Len(plan) = 2
    /\ plan[1].guard = 0 /\ plan[1].desired = MinAmount
    /\ \E n \in RowsOf(1) : results[n].error = "no_guard_price"
    /\ RequestsOf(1) = <<>>
    /\ Len(RequestsOf(2)) = 1


\* Rows of a placed order that report a slippage: no error, not a dry run,
\* a positive average fill.
FillRows == {n \in 1..Len(results) :
                /\ results[n].error = "" /\ results[n].note = ""
                /\ results[n].avg > 0 /\ results[n].guard > 0}

\* The execution of a row was worse than its guard: the buy paid more, the
\* sell received less.
Worse(n) == IF side = "buy" THEN results[n].avg > results[n].guard
            ELSE results[n].avg < results[n].guard

\* C11 as stated: the reported slippage is positive exactly when the
\* execution was worse than the guard.
C11_PositiveIffWorse ==
    \A n \in FillRows : (results[n].slip > 0) <=> Worse(n)

\* C11 amended: the reported slippage is (avg-guard)/guard*10000 for a buy
\* and (guard-avg)/guard*10000 for a sell, rounded to two decimals: it is
\* never negative for an execution worse than the guard nor positive for
\* one that is not, it is 0 at the guard, it is +50 for a buy half a
\* percent above the guard and for a sell half a percent below it, and it
\* is 0.0 for an execution worse than the guard by less than 0.005 basis
\* points.
C11_SlippageSign ==
    \A n \in FillRows :
        LET r == results[n]
            d == IF side = "buy" THEN r.avg - r.guard ELSE r.guard - r.avg
        IN  /\ r.slip > 0 => Worse(n)
            /\ r.slip < 0 => ~Worse(n) /\ r.avg # r.guard
            /\ Worse(n) => r.slip >= 0
            /\ r.avg = r.guard => r.slip = 0
            /\ d * 200 = r.guard => r.slip = 5000
            /\ -d * 200 = r.guard => r.slip = -5000
            /\ (d >= 0 /\ d < r.guard \div 2000000) => r.slip = 0

C11_Witness ==
    /\ side = "sell"
    /\ \E n \in FillRows :
         /\ results[n].guard = Guard
         /\ results[n].avg = Guard - HalfPercent
         /\ results[n].slip = 5000

\* ------------------------------------ smart_order_router.py: best prices
\* What a quote step leaves alone; marketsLoaded is set by each step.
QuoteFrame == UNCHANGED <<exchanges, initialized, pc, req, toTry, idx, order,
                          calls, raisedAt, accepted, openOrders, result,
                          appVars, symVars, apiVars>>

\* A bid that also takes the place of an equal best bid.
BidImprovesOrTies(bid, best_bid) == bid >= best_bid

\* Line 600: bid > best_bid.
BidImproves(bid, best_bid) == bid > best_bid

\* Line 604: ask < best_ask.
AskImproves(ask, best_ask) == ask < best_ask

\* A ticker step that takes the ask of a venue even when its bid is None.
TickerStepAskAlways(a, v, t) ==
    IF t.out # "ticker" THEN a
    ELSE LET a1 == IF t.bid # NoneV /\ BidImproves(t.bid, a.best_bid)
                   THEN [a EXCEPT !.best_bid = t.bid, !.best_bid_venue = v]
                   ELSE a
         IN  IF t.ask # NoneV /\ AskImproves(t.ask, a1.best_ask)
             THEN [a1 EXCEPT !.best_ask = t.ask, !.best_ask_venue = v]
             ELSE a1

\* A ticker step that starts over when fetch_ticker raises.
TickerStepResetOnRaise(a, v, t) ==
    IF t.out # "ticker" THEN NoAcc
    ELSE TickerStepAskAlways(a, v, t)

\* Lines 596-610: one turn of the loop on the ticker t of venue v. A raise
\* of fetch_ticker, and the TypeError of comparing None, end the turn at
\* the except of line 608: a None bid before anything is kept, a None ask
\* after the bid has been kept.
TickerStep(a, v, t) ==
    IF t.out # "ticker" THEN a
    ELSE IF t.bid = NoneV THEN a
    ELSE LET a1 == IF BidImproves(t.bid, a.best_bid)
                   THEN [a EXCEPT !.best_bid = t.bid, !.best_bid_venue = v]
                   ELSE a
         IN  IF t.ask = NoneV THEN a1
             ELSE IF AskImproves(t.ask, a1.best_ask)
                  THEN [a1 EXCEPT !.best_ask = t.ask, !.best_ask_venue = v]
                  ELSE a1

\* Lines 612-627: None without a best bid or a best ask, else the result;
\* spread_bps is cut to whole basis points.
BestResult(a) ==
    IF a.best_bid = 0 \/ a.best_ask = Inf THEN NoBest
    ELSE [empty |-> FALSE, best_bid |-> a.best_bid, best_ask |-> a.best_ask,
          spread |-> a.best_ask - a.best_bid,
          spread_bps |-> ((a.best_ask - a.best_bid) * 10000) \div a.best_bid,
          best_bid_venue |-> a.best_bid_venue,
          best_ask_venue |-> a.best_ask_venue]

\* A quote operation starts: its locals are fresh.
QStart(op, first) ==
    /\ initialized
    /\ qpc = "idle"
    /\ qop' = op
    /\ qpc' = first
    /\ qidx' = 1
    /\ tickers' = [v \in Venues |-> NoTicker]
    /\ books' = [v \in Venues |-> NoBook]
    /\ acc' = NoAcc
    /\ price_data' = NoBest
    /\ prices' = <<>>
    /\ depth_data' = <<>>
    /\ opportunities' = <<>>
    /\ qfailed' = FALSE
    /\ UNCHANGED <<marketsLoaded, loads>>
    /\ QuoteFrame

\* Line 555: get_best_prices is called, by a caller of the router or, at
\* line 468 of api_server.py, by the /prices handler.
GetBestPrices ==
    /\ \E op \in {"best", "prices"} : QStart(op, "tickers")
    /\ UNCHANGED <<bps, min_spread>>

\* Lines 564-610: the turn of the loop for the venue at qidx.
BestTicker ==
    /\ qpc = "tickers" /\ qidx <= Len(exchanges)
    /\ LET v == exchanges[qidx]
       IN  \E lm \in LoadOutcomes(v), t \in TickerOutcomes :
             /\ marketsLoaded' = AfterLoad(v, lm)
             /\ loads' = LoadCall(v, lm)
             /\ tickers' = [tickers EXCEPT ![v] = t]
             /\ IF t.out = "hang"
                THEN qpc' = "blocked" /\ UNCHANGED <<acc, qidx>>
                ELSE /\ acc' = TickerStep(acc, v, t)
                     /\ qidx' = qidx + 1
                     /\ UNCHANGED qpc
    /\ UNCHANGED <<qop, bps, min_spread, books, price_data, prices, depth_data,
                   opportunities, qfailed>>
    /\ QuoteFrame

\* Lines 612-627: the loop is over and get_best_prices returns.
BestReturn ==
    /\ qpc = "tickers" /\ qidx > Len(exchanges)
    /\ qop = "best"
    /\ price_data' = BestResult(acc)
    /\ qpc' = "done"
    /\ UNCHANGED <<qop, qidx, bps, min_spread, tickers, books, acc, prices,
                   depth_data, opportunities, qfailed, marketsLoaded, loads>>
    /\ QuoteFrame

\* --------------------------------------------- api_server.py: order books
\* The books are built around a budget of BookBps basis points: a level
\* sits at the top of its side, at the cap of that budget, or one tick
\* beyond the cap.
BookBps == 20
AskTob == 20000
BidTob == 10000

\* Where the levels of a book side sit, in book order: 0 the top price, 1
\* the cap of BookBps, 2 one tick beyond it.
Shapes == {<<>>, <<0>>, <<0, 1>>, <<0, 2>>, <<0, 1, 2>>, <<0, 2, 0>>,
           <<0, 0, 1>>, <<0, 2, 1>>}

Offset(k, tob) ==
    IF k = 0 THEN 0
    ELSE IF k = 1 THEN (tob * BookBps) \div 10000
    ELSE (tob * BookBps) \div 10000 + 1

\* The quantity of the i-th level: 1, 2, 4, so that a sum tells its levels.
LevelQty(i) == 2 ^ (i - 1)

\* order_book['asks'] and order_book['bids']: [price, quantity] pairs.
AsksOf(sh) == [i \in 1..Len(sh) |-> <<AskTob + Offset(sh[i], AskTob), LevelQty(i)>>]
BidsOf(sh) == [i \in 1..Len(sh) |-> <<BidTob - Offset(sh[i], BidTob), LevelQty(i)>>]

\* What exchange.fetch_order_book does, after the fallback call of the
\* gateio and kucoin branches if there was one: it raises, it never
\* returns, or it returns a book; a book may lack one side.
BookOutcomes ==
    {[out |-> "book", asks |-> AsksOf(sh), bids |-> BidsOf(sh)] : sh \in Shapes}
        \cup {[out |-> "book", asks |-> <<>>, bids |-> BidsOf(<<0>>)]}
        \cup {[out |-> o, asks |-> <<>>, bids |-> <<>>] : o \in {"raise", "hang"}}

\* /prices reads the first level of each side only.
TopBookOutcomes ==
    {b \in BookOutcomes : Len(b.asks) <= 1 /\ Len(b.bids) <= 1}

\* The bps parameter of /depth.
BpsBudgets == {-BookBps, 0, BookBps}

\* Lines 544-546, 679-681: only the gateio branch loads the markets.
BookLoadOutcomes(v) == IF v = "gateio" THEN LoadOutcomes(v) ELSE {"skip"}

\* Lines 561-581: the entry of a venue, if its book has both sides and
\* positive top prices and quantities.
PriceEntries(v, b) ==
    IF b.out # "book" \/ b.bids = <<>> \/ b.asks = <<>> THEN <<>>
    ELSE LET bid_price == b.bids[1][1]
             bid_quantity == b.bids[1][2]
             ask_price == b.asks[1][1]
             ask_quantity == b.asks[1][2]
         IN  IF bid_price > 0 /\ ask_price > 0 /\ bid_quantity > 0
                    /\ ask_quantity > 0
             THEN <<[venue |-> v, bid_price |-> bid_price,
                     ask_price |-> ask_price, bid_quantity |-> bid_quantity,
                     ask_quantity |-> ask_quantity,
                     spread_bps |-> ((ask_price - bid_price) * 10000) \div bid_price]>>
             ELSE <<>>

\* Lines 468-472 of api_server.py: get_best_prices has returned to the
\* /prices handler; without price_data the handler asks no venue for its
\* book and returns the empty list.
PricesGate ==
    /\ qpc = "tickers" /\ qidx > Len(exchanges)
    /\ qop = "prices"
    /\ price_data' = BestResult(acc)
    /\ tickers' = [v \in Venues |-> NoTicker]
    /\ acc' = NoAcc
    /\ qidx' = 1
    /\ qpc' = IF BestResult(acc).empty THEN "done" ELSE "books"
    /\ UNCHANGED <<qop, bps, min_spread, books, prices, depth_data,
                   opportunities, qfailed, marketsLoaded, loads>>
    /\ QuoteFrame

\* Lines 474-586: the turn of the /prices loop for the venue at qidx.
PricesBook ==
    /\ qpc = "books" /\ qop = "prices" /\ qidx <= Len(exchanges)
    /\ LET v == exchanges[qidx]
       IN  \E lm \in BookLoadOutcomes(v), b \in TopBookOutcomes :
             /\ marketsLoaded' = AfterLoad(v, lm)
             /\ loads' = LoadCall(v, lm)
             /\ books' = [books EXCEPT ![v] = b]
             /\ IF b.out = "hang"
                THEN qpc' = "blocked" /\ UNCHANGED <<prices, qidx>>
                ELSE /\ prices' = prices \o PriceEntries(v, b)
                     /\ qidx' = qidx + 1
                     /\ UNCHANGED qpc
    /\ UNCHANGED <<qop, bps, min_spread, tickers, acc, price_data, depth_data,
                   opportunities, qfailed>>
    /\ QuoteFrame

\* Line 588: the handler returns prices.
PricesReturn ==
    /\ qpc = "books" /\ qop = "prices" /\ qidx > Len(exchanges)
    /\ qpc' = "done"
    /\ UNCHANGED <<qop, qidx, bps, min_spread, tickers, books, acc, price_data,
                   prices, depth_data, opportunities, qfailed, marketsLoaded, loads>>
    /\ QuoteFrame

\* ---------------------------------------------------- api_server.py: depth
\* A walk that passes over a level beyond the cap and goes on.
RECURSIVE DepthWalkNoBreak(_, _, _, _)
DepthWalkNoBreak(orders, sd, max_price, i) ==
    IF i > Len(orders) THEN [qty |-> 0, value |-> 0]
    ELSE LET rest == DepthWalkNoBreak(orders, sd, max_price, i + 1)
         IN  IF (sd = "buy" /\ orders[i][1] <= max_price)
                    \/ (sd = "sell" /\ orders[i][1] >= max_price)
             THEN [qty |-> orders[i][2] + rest.qty,
                   value |-> orders[i][1] * orders[i][2] + rest.value]
             ELSE rest

\* Lines 719-730: total_qty and total_value of the levels from the i-th on;
\* the scan stops at the first level beyond max_price.
RECURSIVE DepthWalk(_, _, _, _)
DepthWalk(orders, sd, max_price, i) ==
    IF i > Len(orders) THEN [qty |-> 0, value |-> 0]
    ELSE IF (sd = "buy" /\ orders[i][1] <= max_price)
               \/ (sd = "sell" /\ orders[i][1] >= max_price)
         THEN LET rest == DepthWalk(orders, sd, max_price, i + 1)
              IN  [qty |-> orders[i][2] + rest.qty,
                   value |-> orders[i][1] * orders[i][2] + rest.value]
         ELSE [qty |-> 0, value |-> 0]

\* Lines 711-716: max_price; prices are whole ticks, so a price is within
\* the cap base_price*(1 +- bps/10000) exactly when it is within the cap
\* rounded toward base_price.
MaxPrice(base_price, sd, b) ==
    IF sd = "buy" THEN base_price + (base_price * b) \div 10000
    ELSE base_price - (base_price * b) \div 10000

\* Lines 700-743: the snapshot of one side, if its base price is not 0 and
\* its total quantity is positive.
DepthSide(v, b, sd, budget) ==
    LET orders == IF sd = "buy" THEN b.asks ELSE b.bids
        base_price == orders[1][1]
        max_price == MaxPrice(base_price, sd, budget)
        w == DepthWalk(orders, sd, max_price, 1)
    IN  IF base_price = 0 \/ w.qty <= 0 THEN <<>>
        ELSE <<[venue |-> v, side |-> sd, base_price |-> base_price,
                max_price |-> max_price, total_quantity |-> w.qty,
                vwap |-> w.value \div w.qty, bps |-> budget]>>

\* Lines 693-743: the snapshots of a venue, buy then sell; none without
\* both sides of the book.
DepthEntries(v, b, budget) ==
    IF b.out # "book" \/ b.bids = <<>> \/ b.asks = <<>> THEN <<>>
    ELSE DepthSide(v, b, "buy", budget) \o DepthSide(v, b, "sell", budget)

\* Line 595: GET /depth/{symbol}?bps=.
GetDepth ==
    /\ QStart("depth", "books")
    /\ \E b \in BpsBudgets : bps' = b
    /\ UNCHANGED min_spread

\* Lines 628-747: the turn of the /depth loop for the venue at qidx.
DepthBook ==
    /\ qpc = "books" /\ qop = "depth" /\ qidx <= Len(exchanges)
    /\ LET v == exchanges[qidx]
       IN  \E lm \in BookLoadOutcomes(v), b \in BookOutcomes :
             /\ marketsLoaded' = AfterLoad(v, lm)
             /\ loads' = LoadCall(v, lm)
             /\ books' = [books EXCEPT ![v] = b]
             /\ IF b.out = "hang"
                THEN qpc' = "blocked" /\ UNCHANGED <<depth_data, qidx>>
                ELSE /\ depth_data' = depth_data \o DepthEntries(v, b, bps)
                     /\ qidx' = qidx + 1
                     /\ UNCHANGED qpc
    /\ UNCHANGED <<qop, bps, min_spread, tickers, acc, price_data, prices,
                   opportunities, qfailed>>
    /\ QuoteFrame

\* Line 749: the handler returns depth_data.
DepthReturn ==
    /\ qpc = "books" /\ qop = "depth" /\ qidx > Len(exchanges)
    /\ qpc' = "done"
    /\ UNCHANGED <<qop, qidx, bps, min_spread, tickers, books, acc, price_data,
                   prices, depth_data, opportunities, qfailed, marketsLoaded, loads>>
    /\ QuoteFrame

\* ------------------------------------- smart_order_router.py: arbitrage
\* min_spread as the threshold min_spread * 10000, in basis points.
MinSpreads == {0, 100}

\* Line 663: spread_bps, cut to whole basis points; 0 for a buy price that
\* is not positive.
SpreadBps(buy_price, sell_price) ==
    IF buy_price > 0 THEN ((sell_price - buy_price) * 10000) \div buy_price
    ELSE 0

\* A test that leaves out sell_price > buy_price.
QualifiesAnySign(buy_price, sell_price, msb) ==
    SpreadBps(buy_price, sell_price) >= msb

\* Lines 661-665: the pair is an opportunity.
Qualifies(buy_price, sell_price, msb) ==
    /\ sell_price > buy_price
    /\ SpreadBps(buy_price, sell_price) >= msb

\* Lines 655-657: the ordered pairs of distinct venues, the buy venue in
\* the outer loop and the sell venue in the inner one.
VenuePairs(n) ==
    LET all == [k \in 1..(n * n) |-> <<((k - 1) \div n) + 1, ((k - 1) % n) + 1>>]
        Distinct(pr) == pr[1] # pr[2]
    IN  SelectSeq(all, Distinct)

\* Line 661 raises TypeError on a bid or an ask that is None.
PairRaises(quotes) ==
    \E k \in 1..Len(VenuePairs(Len(quotes))) :
        LET pr == VenuePairs(Len(quotes))[k]
        IN  quotes[pr[1]].ask = NoneV \/ quotes[pr[2]].bid = NoneV

\* Lines 655-674: the opportunities of the quotes kept, in loop order.
Opportunities(quotes, msb) ==
    LET prs == VenuePairs(Len(quotes))
        Good(pr) == Qualifies(quotes[pr[1]].ask, quotes[pr[2]].bid, msb)
        sel == SelectSeq(prs, Good)
    IN  [k \in 1..Len(sel) |->
            LET buy == quotes[sel[k][1]]
                sell == quotes[sel[k][2]]
            IN  [buy_venue |-> buy.venue, sell_venue |-> sell.venue,
                 buy_price |-> buy.ask, sell_price |-> sell.bid,
                 spread |-> sell.bid - buy.ask,
                 spread_bps |-> SpreadBps(buy.ask, sell.bid)]]

\* Line 633: get_arbitrage_opportunities(symbol, min_spread).
GetArbitrage ==
    /\ QStart("arb", "arbtickers")
    /\ \E m \in MinSpreads : min_spread' = m
    /\ UNCHANGED bps

\* Lines 640-652: the turn of the first loop for the venue at qidx; kucoin
\* is passed over.
ArbTicker ==
    /\ qpc = "arbtickers" /\ qidx <= Len(exchanges)
    /\ LET v == exchanges[qidx]
       IN  \E t \in TickerOutcomes :
             /\ tickers' = [tickers EXCEPT ![v] = IF NotKucoin(v) THEN t ELSE @]
             /\ IF NotKucoin(v) /\ t.out = "hang"
                THEN qpc' = "blocked" /\ UNCHANGED <<prices, qidx>>
                ELSE /\ prices' = IF NotKucoin(v) /\ t.out = "ticker"
                                  THEN Append(prices, [venue |-> v, bid |-> t.bid,
                                                       ask |-> t.ask])
                                  ELSE prices
                     /\ qidx' = qidx + 1
                     /\ UNCHANGED qpc
    /\ UNCHANGED <<qop, bps, min_spread, books, acc, price_data, depth_data,
                   opportunities, qfailed, marketsLoaded, loads>>
    /\ QuoteFrame

\* Lines 654-680: the pairs are compared and the opportunities returned;
\* a TypeError reaches the outer except, which returns [].
ArbReturn ==
    /\ qpc = "arbtickers" /\ qidx > Len(exchanges)
    /\ qfailed' = PairRaises(prices)
    /\ opportunities' = IF PairRaises(prices) THEN <<>>
                        ELSE Opportunities(prices, min_spread)
    /\ qpc' = "done"
    /\ UNCHANGED <<qop, qidx, bps, min_spread, tickers, books, acc, price_data,
                   prices, depth_data, marketsLoaded, loads>>
    /\ QuoteFrame

\* The operation has returned; its locals are gone, the catalogues stay.
QuoteFinish ==
    /\ qpc = "done"
    /\ qpc' = "idle"
    /\ qop' = "none"
    /\ qidx' = 0
    /\ bps' = 0
    /\ min_spread' = 0
    /\ tickers' = [v \in Venues |-> NoTicker]
    /\ books' = [v \in Venues |-> NoBook]
    /\ acc' = NoAcc
    /\ price_data' = NoBest
    /\ prices' = <<>>
    /\ depth_data' = <<>>
    /\ opportunities' = <<>>
    /\ qfailed' = FALSE
    /\ UNCHANGED <<marketsLoaded, loads>>
    /\ QuoteFrame

NextQuotes ==
    \/ Initialize
    \/ GetBestPrices
    \/ BestTicker
    \/ BestReturn
    \/ PricesGate
    \/ PricesBook
    \/ PricesReturn
    \/ GetDepth
    \/ DepthBook
    \/ DepthReturn
    \/ GetArbitrage
    \/ ArbTicker
    \/ ArbReturn
    \/ QuoteFinish

SpecQuotes == Init /\ [][NextQuotes]_vars

\* get_best_prices and /prices alone, each step taken when it can be.
NextBest ==
    \/ Initialize
    \/ GetBestPrices
    \/ BestTicker
    \/ BestReturn
    \/ PricesGate
    \/ PricesBook
    \/ PricesReturn
    \/ QuoteFinish

SpecBestLive == Init /\ [][NextBest]_vars /\ WF_vars(NextBest)

\* ------------------------------------------- claims on get_best_prices
MaxOf(S) == CHOOSE x \in S : \A y \in S : y <= x
MinOf(S) == CHOOSE x \in S : \A y \in S : x <= y

\* The position of an initialized venue in the iteration order.
IndexOf(v) == CHOOSE i \in 1..Len(exchanges) : exchanges[i] = v

\* get_best_prices has returned to its caller.
BestDone == qop = "best" /\ qpc = "done"

\* Venues whose fetch_ticker returned.
Succeeded == {v \in Range(exchanges) : tickers[v].out = "ticker"}

\* Venues whose bid, and whose ask, took part in the comparison.
BidCounted == {v \in Succeeded : tickers[v].bid # NoneV}
AskCounted == {v \in BidCounted : tickers[v].ask # NoneV}

\* A usable two-sided quote from one venue.
TwoSided(v) ==
    /\ tickers[v].out = "ticker"
    /\ tickers[v].bid # NoneV /\ tickers[v].bid > 0
    /\ tickers[v].ask # NoneV /\ tickers[v].ask > 0

\* C12 as stated: whenever some fetch succeeded, the result is the maximum
\* bid and the minimum ask over exactly the venues whose fetch succeeded.
C12_BestOverSucceeded ==
    (BestDone /\ \E v \in Succeeded : TwoSided(v)) =>
        /\ ~price_data.empty
        /\ price_data.best_bid =
               MaxOf({tickers[v].bid : v \in Succeeded} \ {NoneV})
        /\ price_data.best_ask =
               MinOf({tickers[v].ask : v \in Succeeded} \ {NoneV})

\* C12 amended: get_best_prices never fails because a venue failed; its
\* best bid is the maximum over the venues whose fetch succeeded with a
\* bid, its best ask the minimum over the venues whose fetch succeeded with
\* a bid and an ask, and the result is empty exactly when that maximum is 0
\* or there is no such ask; if every venue that succeeded gave a two-sided
\* quote, these are the maximum bid and minimum ask over exactly the venues
\* that succeeded.
C12_BestOverUsable ==
    BestDone =>
        LET maxBid == MaxOf({0} \cup {tickers[v].bid : v \in BidCounted})
            minAsk == MinOf({Inf} \cup {tickers[v].ask : v \in AskCounted})
        IN  /\ ~qfailed
            /\ price_data.empty <=> (maxBid = 0 \/ minAsk = Inf)
            /\ ~price_data.empty =>
                 /\ price_data.best_bid = maxBid
                 /\ price_data.best_ask = minAsk
            /\ (Succeeded # {} /\ \A v \in Succeeded : TwoSided(v)) =>
                 /\ ~price_data.empty
                 /\ price_data.best_bid =
                        MaxOf({tickers[v].bid : v \in Succeeded})
                 /\ price_data.best_ask =
                        MinOf({tickers[v].ask : v \in Succeeded})

C12_Witness ==
    /\ BestDone
    /\ Len(exchanges) = 3
    /\ tickers["gateio"].out = "raise"
    /\ tickers["mexc"] = [out |-> "ticker", bid |-> Px, ask |-> Px + 2]
    /\ tickers["bitget"] = [out |-> "ticker", bid |-> Px + 1, ask |-> Px + 2]
    /\ price_data.best_bid = Px + 1 /\ price_data.best_ask = Px + 2

\* C13: a result that is not empty comes with a venue that gave a usable
\* two-sided quote, and has best_bid > 0 and a finite best_ask > 0.
C13_NoOneSidedResult ==
    (BestDone /\ ~price_data.empty) =>
        /\ \E v \in Range(exchanges) : TwoSided(v)
        /\ price_data.best_bid > 0
        /\ price_data.best_ask > 0 /\ price_data.best_ask < Inf

PricesDone == qop = "prices" /\ qpc = "done"

\* The book has both sides, with positive top prices.
ValidBook(b) ==
    /\ b.out = "book"
    /\ b.bids # <<>> /\ b.asks # <<>>
    /\ b.bids[1][1] > 0 /\ b.asks[1][1] > 0

EntriesOf(list, v) == {n \in 1..Len(list) : list[n].venue = v}

\* C15: when /prices returns, every initialized venue has been asked for
\* its book, whatever the best-price query gave, and the result holds
\* exactly one entry for each venue whose book is valid and none for the
\* others.
C15_EntryPerValidBook ==
    PricesDone =>
        \A v \in Range(exchanges) :
            /\ books[v].out # "unqueried"
            /\ Cardinality(EntriesOf(prices, v)) =
                   IF ValidBook(books[v]) THEN 1 ELSE 0

\* -------------------------------------------------- claims on /depth
\* The price is within the cap of the budget: tob*(1+bps/10000) walking
\* the asks for a buy, tob*(1-bps/10000) walking the bids for a sell.
WithinCap(price, tob, sd, budget) ==
    IF sd = "buy" THEN price * 10000 <= tob * (10000 + budget)
    ELSE price * 10000 >= tob * (10000 - budget)

\* The length of the longest prefix of levels none of which is beyond the
\* cap.
PrefixWithin(orders, sd, budget) ==
    CHOOSE k \in 0..Len(orders) :
        /\ \A i \in 1..k : WithinCap(orders[i][1], orders[1][1], sd, budget)
        /\ k < Len(orders) =>
               ~WithinCap(orders[k + 1][1], orders[1][1], sd, budget)

RECURSIVE SumQty(_, _)
SumQty(orders, k) == IF k = 0 THEN 0 ELSE orders[k][2] + SumQty(orders, k - 1)

SideOrders(b, sd) == IF sd = "buy" THEN b.asks ELSE b.bids

SnapshotsOf(v, sd) ==
    {n \in 1..Len(depth_data) : depth_data[n].venue = v /\ depth_data[n].side = sd}

\* C16: for every venue whose book has been walked and for each side, the
\* total quantity is the sum of the quantities of the longest prefix of
\* levels within the cap: a level at the cap is in, the first level beyond
\* it and every level after that are out; a side whose sum is 0 has no
\* snapshot.
C16_DepthIsPrefixSum ==
    qop = "depth" =>
        \A i \in 1..Len(exchanges), sd \in Sides :
            LET v == exchanges[i]
                b == books[v]
                orders == SideOrders(b, sd)
                total == SumQty(orders, PrefixWithin(orders, sd, bps))
            IN  (i < qidx /\ b.out = "book" /\ b.asks # <<>> /\ b.bids # <<>>) =>
                    /\ Cardinality(SnapshotsOf(v, sd)) = IF total > 0 THEN 1 ELSE 0
                    /\ \A n \in SnapshotsOf(v, sd) :
                         depth_data[n].total_quantity = total

C16_Witness ==
    /\ qop = "depth" /\ qpc = "done"
    /\ bps = BookBps
    /\ Len(exchanges) >= 2
    /\ books["gateio"].asks = AsksOf(<<0, 1, 2>>)
    /\ books["mexc"].asks = AsksOf(<<0, 2, 0>>)
    /\ \E n \in SnapshotsOf("gateio", "buy") : depth_data[n].total_quantity = 3
    /\ \E n \in SnapshotsOf("mexc", "buy") : depth_data[n].total_quantity = 1
    /\ \E n \in SnapshotsOf("mexc", "sell") : depth_data[n].total_quantity = 1

\* ------------------------------------------------ claims on arbitrage
ArbDone == qop = "arb" /\ qpc = "done"

\* C17: every opportunity emitted buys at the ask of its buy venue and
\* sells at the bid of its sell venue, two distinct venues, with
\* sell_price > buy_price and a spread of at least min_spread.
C17_OpportunitiesAreProfitable ==
    ArbDone =>
        \A n \in 1..Len(opportunities) :
            LET o == opportunities[n]
            IN  /\ o.buy_venue # o.sell_venue
                /\ o.buy_price = tickers[o.buy_venue].ask
                /\ o.sell_price = tickers[o.sell_venue].bid
                /\ o.sell_price > o.buy_price
                /\ o.spread_bps >= min_spread
                /\ o.buy_price > 0 =>
                       (o.sell_price - o.buy_price) * 10000 >= min_spread * o.buy_price

C17_Witness ==
    /\ ArbDone
    /\ min_spread = 100
    /\ tickers["gateio"] = [out |-> "ticker", bid |-> Px, ask |-> Px]
    /\ tickers["mexc"] = [out |-> "ticker", bid |-> Px + 1, ask |-> Px + 2]
    /\ Len(opportunities) = 1
    /\ opportunities[1].buy_venue = "gateio"
    /\ opportunities[1].sell_venue = "mexc"

\* ------------------------------------------- claims on venue isolation
QuotesOf(v) == {n \in 1..Len(prices) : prices[n].venue = v}

C19_AggregationReturns ==
    (qpc \in {"tickers", "books"}) ~> (qpc = "done")

\* ------------------------------------------------- symbol conversions
\* A symbol is a string, here the sequence of its characters.
USDT == <<"U", "S", "D", "T">>
BTC == <<"B", "T", "C">>
ETH == <<"E", "T", "H">>
Slash == <<"/">>
Dash == <<"-">>
Empty == <<>>

\* Quote assets the conversions recognize, in the order they are tested.
QuoteSuffixes == <<USDT, BTC, ETH>>

\* Base assets of the inputs: BTC, ETH, WBTC, STETH, DOGE and, in lower
\* case, btc.
Bases == {BTC, ETH, <<"W">> \o BTC, <<"S", "T">> \o ETH,
          <<"D", "O", "G", "E">>, <<"b", "t", "c">>}

\* Endings of the inputs: the recognized quote assets, USD, and usdt in
\* lower case.
Endings == {USDT, BTC, ETH, <<"U", "S", "D">>, <<"u", "s", "d", "t">>}

\* The input symbols: a base and an ending, with and without the '/'.
Symbols == {b \o e : b \in Bases, e \in Endings}
               \cup {b \o Slash \o e : b \in Bases, e \in Endings}

\* The places where a symbol is converted for a venue.
RouterSites == {"place_order", "get_exchange_prices", "get_best_prices"}
ApiSites == {"prices", "depth"}

\* sub in s
Contains(s, sub) ==
    \E i \in 1..(Len(s) - Len(sub) + 1) : SubSeq(s, i, i + Len(sub) - 1) = sub

\* s.endswith(suf)
EndsWith(s, suf) ==
    Len(s) >= Len(suf) /\ SubSeq(s, Len(s) - Len(suf) + 1, Len(s)) = suf

\* s.replace(old, new): every occurrence of old, from the left.
RECURSIVE Replace(_, _, _)
Replace(s, old, new) ==
    IF Len(s) < Len(old) THEN s
    ELSE IF SubSeq(s, 1, Len(old)) = old
         THEN new \o Replace(SubSeq(s, Len(old) + 1, Len(s)), old, new)
         ELSE <<s[1]>> \o Replace(Tail(s), old, new)

\* s[:-len(suf)]
DropSuffix(s, suf) == SubSeq(s, 1, Len(s) - Len(suf))

UpperChar(c) ==
    CASE c = "b" -> "B" [] c = "t" -> "T" [] c = "c" -> "C" [] c = "u" -> "U"
      [] c = "s" -> "S" [] c = "d" -> "D" [] OTHER -> c

\* s.upper()
Upper(s) == [i \in 1..Len(s) |-> UpperChar(s[i])]

\* The elif chain on endswith that rewrites with replace: lines 142-149 and
\* 153-160 and 577-589 of smart_order_router.py, 480-498 and 607-626 of
\* api_server.py.
BySuffixReplace(symbol, sep) ==
    IF EndsWith(symbol, USDT) THEN Replace(symbol, USDT, sep \o USDT)
    ELSE IF EndsWith(symbol, BTC) THEN Replace(symbol, BTC, sep \o BTC)
    ELSE IF EndsWith(symbol, ETH) THEN Replace(symbol, ETH, sep \o ETH)
    ELSE symbol

\* The elif chain that cuts the suffix off: lines 499-518 of
\* smart_order_router.py.
BySuffixSlice(symbol, sep) ==
    IF EndsWith(symbol, USDT) THEN DropSuffix(symbol, USDT) \o sep \o USDT
    ELSE IF EndsWith(symbol, BTC) THEN DropSuffix(symbol, BTC) \o sep \o BTC
    ELSE IF EndsWith(symbol, ETH) THEN DropSuffix(symbol, ETH) \o sep \o ETH
    ELSE symbol

\* Lines 138-164 of smart_order_router.py: spot_symbol in place_order.
PlaceOrderSymbol(v, symbol) ==
    IF v = "gateio"
    THEN IF Contains(symbol, Slash) THEN symbol ELSE BySuffixReplace(symbol, Slash)
    ELSE IF v = "kucoin"
    THEN IF Contains(symbol, Slash) THEN Replace(symbol, Slash, Dash)
         ELSE BySuffixReplace(symbol, Dash)
    ELSE IF v = "bitget"
    THEN IF Contains(symbol, Slash) THEN Upper(Replace(symbol, Slash, Empty))
         ELSE Upper(symbol)
    ELSE IF Contains(symbol, Slash) THEN Replace(symbol, Slash, Empty) ELSE symbol

\* Lines 495-526 of smart_order_router.py: symbol in get_exchange_prices.
ExchangePricesSymbol(v, symbol) ==
    IF ~Contains(symbol, Slash)
    THEN IF v = "gateio" THEN BySuffixSlice(symbol, Slash)
         ELSE IF v = "kucoin" THEN BySuffixSlice(symbol, Dash)
         ELSE symbol
    ELSE IF v = "kucoin" THEN Replace(symbol, Slash, Dash)
         ELSE IF v \in {"mexc", "bitget"} THEN Replace(symbol, Slash, Empty)
         ELSE symbol

\* Lines 573-594 of smart_order_router.py: exchange_symbol in
\* get_best_prices.
BestPricesSymbol(v, symbol) ==
    IF ~Contains(symbol, Slash)
    THEN IF v = "gateio" THEN BySuffixReplace(symbol, Slash)
         ELSE IF v = "kucoin" THEN BySuffixReplace(symbol, Dash)
         ELSE symbol
    ELSE IF v = "kucoin" THEN Replace(symbol, Slash, Dash)
         ELSE IF v \in {"mexc", "bitget"} THEN Replace(symbol, Slash, Empty)
         ELSE symbol

\* Lines 476-508 of api_server.py: exchange_symbol in the /prices handler,
\* upper-cased for bitget at line 508.
PricesSymbol(v, symbol) ==
    IF v = "gateio"
    THEN IF Contains(symbol, Slash) THEN symbol ELSE BySuffixReplace(symbol, Slash)
    ELSE IF v = "kucoin"
    THEN IF Contains(symbol, Slash) THEN Replace(symbol, Slash, Dash)
         ELSE BySuffixReplace(symbol, Dash)
    ELSE IF v = "bitget"
    THEN Upper(IF Contains(symbol, Slash) THEN Replace(symbol, Slash, Empty)
               ELSE symbol)
    ELSE IF Contains(symbol, Slash) THEN Replace(symbol, Slash, Empty) ELSE symbol

\* Lines 601-643 of api_server.py: exchange_symbol in the /depth handler,
\* upper-cased for bitget at line 643.
DepthSymbol(v, symbol) ==
    LET gateio_symbol == IF Contains(symbol, Slash) THEN symbol
                         ELSE BySuffixReplace(symbol, Slash)
        kucoin_symbol == IF Contains(symbol, Slash) THEN Replace(symbol, Slash, Dash)
                         ELSE BySuffixReplace(symbol, Dash)
        mexc_symbol == IF Contains(symbol, Slash) THEN Replace(symbol, Slash, Empty)
                       ELSE symbol
    IN  IF v = "gateio" THEN gateio_symbol
        ELSE IF v = "kucoin" THEN kucoin_symbol
        ELSE IF v = "bitget" THEN Upper(mexc_symbol)
        ELSE mexc_symbol

VenueSymbol(site, v, symbol) ==
    CASE site = "place_order" -> PlaceOrderSymbol(v, symbol)
      [] site = "get_exchange_prices" -> ExchangePricesSymbol(v, symbol)
      [] site = "get_best_prices" -> BestPricesSymbol(v, symbol)
      [] site = "prices" -> PricesSymbol(v, symbol)
      [] site = "depth" -> DepthSymbol(v, symbol)

SymFrame == UNCHANGED <<routerVars, appVars, quoteVars, apiVars>>

\* A method of the router converts a symbol for a venue.
ConvertInRouter ==
    /\ \E site \in RouterSites, v \in Venues, symbol \in Symbols :
         /\ symSite' = site
         /\ symVenue' = v
         /\ symIn' = symbol
         /\ symOut' = VenueSymbol(site, v, symbol)
    /\ SymFrame

\* A handler of the API server converts a symbol for a venue.
ConvertInApi ==
    /\ \E site \in ApiSites, v \in Venues, symbol \in Symbols :
         /\ symSite' = site
         /\ symVenue' = v
         /\ symIn' = symbol
         /\ symOut' = VenueSymbol(site, v, symbol)
    /\ SymFrame

NextSymbols ==
    \/ ConvertInRouter
    \/ ConvertInApi

SpecSymbols == Init /\ [][NextSymbols]_vars

\* ------------------------------------------ claims on the conversions
\* The separator of the venue's form: slash, dash, or none.
Separator(v) ==
    IF v = "gateio" THEN Slash ELSE IF v = "kucoin" THEN Dash ELSE Empty

\* The quote suffix a bare input ends in, the first of the list that fits.
SuffixOf(symbol) ==
    LET fits == {n \in 1..Len(QuoteSuffixes) : EndsWith(symbol, QuoteSuffixes[n])}
    IN  IF fits = {} THEN Empty
        ELSE QuoteSuffixes[CHOOSE n \in fits : \A m \in fits : n <= m]

\* The venue's form of a symbol as the policy gives it.
Normalized(v, symbol) ==
    IF Contains(symbol, Slash) THEN Replace(symbol, Slash, Separator(v))
    ELSE IF SuffixOf(symbol) = Empty THEN symbol
    ELSE DropSuffix(symbol, SuffixOf(symbol)) \o Separator(v) \o SuffixOf(symbol)

\* C20: at every call site, an input with '/' is converted directly to the
\* venue's form, a bare input ending in USDT, BTC or ETH gets the venue's
\* separator once, right before that suffix, and any other input passes
\* through unchanged (letter case aside, for bitget).
C20_SymbolNormalization ==
    symSite # "none" =>
        \/ symOut = Normalized(symVenue, symIn)
        \/ symVenue = "bitget" /\ symOut = Upper(Normalized(symVenue, symIn))

\* ------------------------------ smart_order_router.py: get_exchange_prices
\* Lines 528-549: the prices of one venue from its ticker, or None; a bid
\* or an ask of None raises at the comparison and the except returns None.
ExchangePrices(v, t) ==
    IF t.out = "ticker" /\ t.bid > 0 /\ t.ask > 0
    THEN <<[venue |-> v, bid_price |-> t.bid, ask_price |-> t.ask,
            spread_bps |-> ((t.ask - t.bid) * 10000) \div t.bid]>>
    ELSE <<>>

\* Lines 480-553: get_exchange_prices(exchange_name, symbol); the method
\* has no suspension point, so it runs as one step. A venue that is not
\* among self.exchanges returns None before any venue call.
GetExchangePrices ==
    /\ initialized
    /\ qpc = "idle"
    /\ qop' = "exchange"
    /\ \E exchange_name \in Venues :
         IF exchange_name \notin Range(exchanges)
         THEN /\ qpc' = "done"
              /\ UNCHANGED <<marketsLoaded, loads, tickers, prices>>
         ELSE \E lm \in LoadOutcomes(exchange_name), t \in TickerOutcomes :
                /\ marketsLoaded' = AfterLoad(exchange_name, lm)
                /\ loads' = LoadCall(exchange_name, lm)
                /\ tickers' = [tickers EXCEPT ![exchange_name] = t]
                /\ prices' = ExchangePrices(exchange_name, t)
                /\ qpc' = IF t.out = "hang" THEN "blocked" ELSE "done"
    /\ UNCHANGED <<qidx, bps, min_spread, books, acc, price_data, depth_data,
                   opportunities, qfailed>>
    /\ QuoteFrame

\* ------------------------------------------- the router on its event loop
\* Every handler is a coroutine on one event loop and the venue calls are
\* synchronous: a request runs until it returns or reaches an await that
\* suspends it. place_order suspends at its three asyncio.sleep calls
\* (lines 264, 297, 364), each before a fetch_order; the quote operations
\* never suspend, and neither does create_order between the return of
\* place_order and its own (lines 253-326 of api_server.py).
Suspended == {"idle", "g_fetch1", "g_fetch2", "g_fetch3"}

\* The venue answers of the interleaved runs: an accepted order that is
\* open or closed with no fill, an unknown fill or a full fill; a two-sided
\* ticker; a book of one level a side. Every call may also raise, return
\* nothing or never return, as everywhere.
LoopOrders ==
    {o \in Orders : /\ o.id = "oid" /\ o.status \in {"open", "closed"}
                    /\ o.filled \in {NoneV, 0, Qty}
                    /\ o.average = NoneV /\ o.cost = NoneV}

LoopTickers ==
    {t \in TickerOutcomes : t.out = "ticker" => (t.bid = Px /\ t.ask = Px + 2)}

LoopBooks ==
    {b \in BookOutcomes : b.out = "book" =>
                            (b.asks = AsksOf(<<0>>) /\ b.bids = BidsOf(<<0>>))}

LoopAnswers ==
    /\ order' \in LoopOrders \cup {NoOrder}
    /\ \A v \in Venues : tickers'[v] \in LoopTickers \cup {NoTicker}
    /\ \A v \in Venues : books'[v] \in LoopBooks \cup {NoBook}

\* A step A of place_order, taken while no quote operation is running.
RouterTurn(A) == qpc = "idle" /\ A /\ LoopAnswers

\* A step A of a quote operation, taken while place_order is not running
\* or is asleep.
QuoteTurn(A) == pc \in Suspended /\ A /\ LoopAnswers

NextLoop ==
    \/ Initialize
    \/ RouterTurn(PlaceOrder)
    \/ RouterTurn(EnterVenue)
    \/ RouterTurn(AllFailed)
    \/ RouterTurn(GateLoadMarkets)
    \/ RouterTurn(GateValidate)
    \/ RouterTurn(CreateGateio)
    \/ RouterTurn(CreateBitget)
    \/ RouterTurn(CreateOther)
    \/ RouterTurn(GateFetch1)
    \/ RouterTurn(GateFetch2)
    \/ RouterTurn(BuildResult)
    \/ RouterTurn(GateFetch3)
    \/ RouterTurn(Finish)
    \/ QuoteTurn(GetExchangePrices)
    \/ QuoteTurn(GetBestPrices)
    \/ QuoteTurn(BestTicker)
    \/ QuoteTurn(BestReturn)
    \/ QuoteTurn(PricesGate)
    \/ QuoteTurn(PricesBook)
    \/ QuoteTurn(PricesReturn)
    \/ QuoteTurn(GetDepth)
    \/ QuoteTurn(DepthBook)
    \/ QuoteTurn(DepthReturn)
    \/ QuoteTurn(QuoteFinish)

SpecLoop == Init /\ [][NextLoop]_vars

\* ------------------------------------------- claims on the catalogues
\* C21: under any interleaving of place_order, get_best_prices,
\* get_exchange_prices, /prices and /depth, load_markets is never called on
\* a venue whose catalogue is populated, and a venue's catalogue is written
\* at most once: it is populated exactly when one load_markets call on the
\* venue has returned.
C21_CatalogueLoadedOnce ==
    \A v \in Venues :
        /\ ~loads[v].stale
        /\ loads[v].writes <= 1
        /\ marketsLoaded[v] <=> loads[v].writes = 1

\* A /depth request has run while a Gate.io market order is asleep before
\* its last status fetch; the order found the catalogue populated and did
\* not load it.
C21_Witness ==
    /\ pc = "g_fetch3"
    /\ calls["gateio"] = <<"create_order", "fetch_order">>
    /\ qop = "depth" /\ qpc = "done"
    /\ books["gateio"].out = "book"
    /\ loads["gateio"].writes = 1
    /\ loads["mexc"].writes = 0

\* ------------------------------------------ sor_app.py: Fetch top-of-book
\* Lines 61-93: fetch_entry_tob_with_qty(venue, symbol, side) on the list
\* prs that /prices returned: 0.0 without a list, the ask (buy) or the bid
\* (sell) of the first entry of the venue, and without such an entry those
\* of the first entry of the list (lines 81-90).
FetchEntryTob(venue, sd, prs) ==
    IF prs = <<>> THEN 0
    ELSE LET mine == {i \in 1..Len(prs) : prs[i].venue = venue}
             entry == IF mine # {}
                      THEN prs[CHOOSE i \in mine : \A j \in mine : i <= j]
                      ELSE prs[1]
         IN  IF sd = "buy" THEN entry.ask_price ELSE entry.bid_price

\* Lines 201-230 and 278-283: the Fetch button has the answer of /prices;
\* without prices it stops, else there is a row, and a plan entry, for each
\* venue of the answer, its guard to be fetched.
FetchStart ==
    /\ xpc = "idle"
    /\ qop = "prices" /\ qpc = "done"
    /\ prices # <<>>
    /\ \E sd \in Sides : side' = sd
    /\ plan' = [i \in 1..Len(prices) |->
                   [k |-> prices[i].venue, guard |-> 0, desired |-> 0]]
    /\ pos' = 1
    /\ xpc' = "fetch"
    /\ UNCHANGED <<dry, results, requests, routerVars, quoteVars, symVars, apiVars>>

\* Lines 217 and 283: fetch_entry_tob_with_qty asks /prices again; px, the
\* guard of the row's plan entry, is read from the new answer.
FetchRow ==
    /\ xpc = "fetch" /\ pos <= Len(plan)
    /\ qop = "prices" /\ qpc = "done"
    /\ plan' = [plan EXCEPT ![pos].guard = FetchEntryTob(plan[pos].k, side, prices)]
    /\ pos' = pos + 1
    /\ UNCHANGED <<xpc, side, dry, results, requests, routerVars, quoteVars,
                   symVars, apiVars>>

\* Line 283: the plan is complete.
FetchEnd ==
    /\ xpc = "fetch" /\ pos > Len(plan)
    /\ xpc' = "idle"
    /\ UNCHANGED <<side, dry, plan, pos, results, requests, routerVars,
                   quoteVars, symVars, apiVars>>

\* The app asks /prices only, and the venues answer as in LoopAnswers.
NextFetch ==
    \/ Initialize
    \/ GetBestPrices /\ qop' = "prices"
    \/ BestTicker /\ LoopAnswers
    \/ PricesGate
    \/ PricesBook /\ LoopAnswers
    \/ PricesReturn
    \/ QuoteFinish
    \/ FetchStart
    \/ FetchRow
    \/ FetchEnd

SpecFetch == Init /\ [][NextFetch]_vars

\* The entries of venue v in the answer of /prices.
QuotesFor(v) == {i \in 1..Len(prices) : prices[i].venue = v}

\* C22: the guard read for venue V is V's own top of book for the side (its
\* ask for a buy, its bid for a sell) in the prices fetched, and 0 when V
\* has no quote in them.
C22_GuardIsOwnQuote ==
    [][(xpc = "fetch" /\ pos' = pos + 1) =>
         LET v == plan[pos].k
         IN  IF QuotesFor(v) = {} THEN plan'[pos].guard = 0
             ELSE \E i \in QuotesFor(v) :
                    plan'[pos].guard = IF side = "buy" THEN prices[i].ask_price
                                       ELSE prices[i].bid_price]_vars

\* ------------------------------------- further claims on place_order
\* C23: a success result is built only after the order's status has been
\* fetched from the venue that accepted it, whatever the venue and the
\* order type.
C23_StatusFetchedBeforeResult ==
    (pc = "done" /\ result.success) =>
        "fetch_order" \in Range(calls[result.venue])

\* ------------------------------------------ further claims on arbitrage
\* The opportunities emitted for buying on a and selling on b.
EmittedFor(a, b) ==
    {n \in 1..Len(opportunities) :
        opportunities[n].buy_venue = a /\ opportunities[n].sell_venue = b}

\* C24: for every ordered pair of distinct venues whose quotes were
\* collected, with a positive ask on the buy venue and a bid on the sell
\* venue, (buy A, sell B) is in the output exactly once when B's bid is
\* above A's ask and the spread meets the minimum, and not at all
\* otherwise, whatever the other pairs give.
C24_EveryQualifyingPairOnce ==
    ArbDone =>
        \A a, b \in Succeeded :
            (a # b /\ tickers[a].ask > 0 /\ tickers[b].bid # NoneV) =>
                Cardinality(EmittedFor(a, b)) =
                    IF /\ tickers[b].bid > tickers[a].ask
                       /\ (tickers[b].bid - tickers[a].ask) * 10000
                              >= min_spread * tickers[a].ask
                    THEN 1 ELSE 0

\* C26: a result that is not a success has no fill, no cost, no average
\* price, no execution and an error message, whatever the venues that
\* raised had answered before.
C26_FailureCarriesNoFill ==
    (pc = "done" /\ ~result.success) =>
        /\ result.total_filled = 0
        /\ result.total_cost = 0
        /\ result.average_price = NoneV
        /\ result.venue = "none" /\ result.status = "none"
        /\ result.error_message # ""

\* Every venue accepted an order and then raised, Gate.io after a status
\* fetch.
C26_Witness ==
    /\ pc = "done"
    /\ ~result.success
    /\ toTry = <<"gateio", "mexc", "bitget">>
    /\ accepted = {"gateio", "mexc", "bitget"}
    /\ "fetch_order" \in Range(calls["gateio"])

\* The create calls made on venue v in the running call.
CreateCalls(v) == {i \in 1..Len(calls[v]) : calls[v][i] = "create_order"}

\* How far the running call has got: the index of the venue being
\* attempted, then the position within the attempt.
StepsOfAttempt == <<"loop", "g_load", "g_validate", "create", "g_fetch1",
                    "g_fetch2", "build", "g_fetch3">>

Progress ==
    IF pc = "done" THEN (Len(toTry) + 2) * Len(StepsOfAttempt)
    ELSE idx * Len(StepsOfAttempt)
             + (CHOOSE k \in 1..Len(StepsOfAttempt) : StepsOfAttempt[k] = pc)

\* C27: in a call, only candidate venues are called, each receives at most
\* one create-order call, so there are at most as many create calls as
\* candidates; every step of the call moves forward (no venue is attempted
\* again) and the call can always go on until it returns its result.
C27_EachVenueAttemptedOnce ==
    /\ [](pc # "idle" =>
            /\ \A i, j \in 1..Len(toTry) : toTry[i] = toTry[j] => i = j
            /\ \A v \in Venues :
                 /\ Cardinality(CreateCalls(v)) <= 1
                 /\ calls[v] # <<>> => v \in Range(toTry)
            /\ pc # "done" => ENABLED Next
            /\ pc = "done" => result # NoResult)
    /\ [][(pc \notin {"idle", "done"}) => Progress' > Progress]_vars

C27_Witness ==
    /\ pc = "done"
    /\ ~result.success
    /\ toTry = <<"gateio", "mexc", "bitget">>
    /\ calls["gateio"] = <<"load_markets", "create_order", "fetch_order",
                           "fetch_order">>
    /\ calls["mexc"] = <<"create_order">>
    /\ calls["bitget"] = <<"create_order">>

\* ----------------------------------------- further claims on Execute
\* C25 as stated: with DRY-RUN on no order request is issued, and every
\* processed entry with a positive quantity and a positive guard has a
\* DRY-RUN row with zero fill and zero slippage.
C25_DryRunRowPerEntry ==
    dry =>
        /\ requests = <<>>
        /\ \A i \in 1..Len(plan) :
             (i < pos /\ plan[i].desired > 0 /\ plan[i].guard > 0) =>
                 \E n \in RowsOf(i) :
                     /\ results[n].note = "DRY-RUN"
                     /\ results[n].filled = 0 /\ results[n].slip = 0

\* C25 amended: with DRY-RUN on no order request is issued for any entry;
\* every processed entry with a positive guard and a quantity that is
\* positive and not below the minimum has exactly one row, marked DRY-RUN,
\* with the clamped quantity, the guard, zero average fill, zero fill and
\* zero slippage; a positive quantity below the minimum has the one row
\* amount_below_min instead.
C25_DryRunIssuesNoOrder ==
    dry =>
        /\ requests = <<>>
        /\ \A i \in 1..Len(plan) :
             (i < pos /\ plan[i].desired > 0 /\ plan[i].guard > 0) =>
                 /\ Cardinality(RowsOf(i)) = 1
                 /\ \A n \in RowsOf(i) :
                      IF ClampAmount(plan[i].desired) <= 0
                      THEN results[n] = ErrorRow(i, "amount_below_min")
                      ELSE /\ results[n].note = "DRY-RUN"
                           /\ results[n].error = ""
                           /\ results[n].placed = ClampAmount(plan[i].desired)
                           /\ results[n].guard = plan[i].guard
                           /\ results[n].avg = 0
                           /\ results[n].filled = 0
                           /\ results[n].slip = 0

C25_Witness ==
    /\ xpc = "done"
    /\ dry
    /\ Len(plan) = 2
    /\ plan[1].desired = MinAmount /\ plan[1].guard = Guard
    /\ plan[2].desired = MaxAmount + 1 /\ plan[2].guard = Guard
    /\ Len(results) = 2
    /\ results[1].note = "DRY-RUN" /\ results[2].note = "DRY-RUN"
    /\ results[2].placed = MaxAmount
    /\ requests = <<>>

\* ------------------------------------- further claims on the conversions
\* C28: the venue symbol a call site produces for a venue and an input
\* symbol is the one every other call site produces for them.
C28_SitesAgree ==
    symSite # "none" =>
        \A site \in RouterSites \cup ApiSites :
            VenueSymbol(site, symVenue, symIn) = symOut

\* ------------------------------------------- api_server.py: POST /orders
\* Lines 266 and 320: "filled" if result.success else "failed".
OrderStatus(r) == IF r.success THEN "filled" ELSE "failed"

\* Lines 313-326: the OrderResponse, after the commit of line 306.
OrderResponse(r) ==
    [code |-> 200, status |-> OrderStatus(r), order_id |-> r.order_id,
     total_filled |-> r.total_filled, venue |-> r.venue, committed |-> TRUE]

\* Lines 328-337: rollback and HTTP 500.
ErrorResponse ==
    [code |-> 500, status |-> "none", order_id |-> "none", total_filled |-> 0,
     venue |-> "none", committed |-> FALSE]

\* Lines 224-251: the handler calls place_order without a venue.
CreateOrder ==
    /\ PlaceOrder
    /\ req'.venue = "none"

\* Lines 253-337: place_order has returned. The order row and the
\* execution rows are inserted and committed (lines 276-306) and the
\* response is returned; an exception of the database session, at an
\* insert or at the commit, is caught at line 328.
OrderRespond ==
    /\ pc = "done"
    /\ \E db \in {"commit", "raise"} :
         response' = IF db = "commit" THEN OrderResponse(result)
                     ELSE ErrorResponse
    /\ pc' = "responded"
    /\ UNCHANGED <<exchanges, initialized, marketsLoaded, loads, req, toTry,
                   idx, order, calls, raisedAt, accepted, openOrders, result>>
    /\ UNCHANGED <<appVars, quoteVars, symVars>>

\* The caller has the response; the handler's locals are gone.
OrderReturn ==
    /\ pc = "responded"
    /\ pc' = "idle"
    /\ req' = NoReq
    /\ toTry' = <<>>
    /\ idx' = 0
    /\ calls' = NoCalls
    /\ raisedAt' = <<>>
    /\ accepted' = {}
    /\ openOrders' = {}
    /\ result' = NoResult
    /\ response' = NoResponse
    /\ UNCHANGED <<exchanges, initialized, marketsLoaded, loads, order>>
    /\ UNCHANGED <<appVars, quoteVars, symVars>>

NextOrders ==
    \/ Initialize
    \/ CreateOrder
    \/ EnterVenue
    \/ AllFailed
    \/ GateLoadMarkets
    \/ GateValidate
    \/ CreateGateio
    \/ CreateBitget
    \/ CreateOther
    \/ GateFetch1
    \/ GateFetch2
    \/ BuildResult
    \/ GateFetch3
    \/ OrderRespond
    \/ OrderReturn

SpecOrders == Init /\ [][NextOrders]_vars

\* ------------------------------------------------ claims on POST /orders
\* C29: a response with status "filled" reports a total_filled above 0.
C29_FilledMeansFilled ==
    (pc = "responded" /\ response.status = "filled") =>
        response.total_filled > 0

\* C30: when the request ends in HTTP 500 with the transaction rolled
\* back, no venue has accepted an order for it; and when a venue has
\* accepted one, the response is a success whose committed row and
\* execution are those of a venue that accepted.
C30_AcceptedIffCommitted ==
    pc = "responded" =>
        /\ response.code = 500 => accepted = {}
        /\ accepted # {} =>
             /\ response.committed
             /\ response.status = "filled"
             /\ response.venue \in accepted
             /\ accepted = {response.venue}
====
